---- MODULE Spec2Model ----
(***************************************************************************)
(* A model of the poker-bot game engine (game.BaseGame and the variants    *)
(* modes.Holdem, modes.Omaha, modes.FiveCardDraw) and of the IRC command   *)
(* handler that drives it (irc.Handler).                                   *)
(*                                                                         *)
(* The engine state of one channel is the record `game`, whose fields      *)
(* carry the names of the Go struct fields.  Seats are the positions of    *)
(* game.Players (1-based here, 0-based in Go: Turn and button keep the Go  *)
(* numbering, so the player to act is game.Players[game.Turn + 1]).        *)
(***************************************************************************)
EXTENDS Integers, Sequences, FiniteSets, TLC

VARIABLES
    game,        \* the game of the channel: h.games[channel], or NoGame
    phase,       \* engine driver position: "new", "reset", "dealt"
    spinning,    \* TRUE once a call is stuck in the loop of NextTurn
    calls,       \* number of engine calls made since DealCards, or of
                 \* turn commands and timer callbacks the handler has run
    startMoney,  \* history: sum of all Money at the last ResetRound
    lastOp,      \* history: the last call, its arguments and its result
    currentTurn, \* h.currentTurn[channel]
    turnTimer,   \* h.turnTimer[channel]
    stray,       \* pending timers h.turnTimer[channel] no longer refers to
    db           \* the players table of package db

vars == <<game, phase, spinning, calls, startMoney, lastOp,
          currentTurn, turnTimer, stray, db>>

handlerVars == <<currentTurn, turnTimer, stray, db>>

----------------------------------------------------------------------------
(* Bounds of the model. *)

MaxPlayers == 3      \* seats of an engine-level game: 2..MaxPlayers
MaxStack   == 25     \* largest stack a seat starts the round with
MaxAmount  == 10     \* largest amount passed to Bet / Raise
MaxCalls   == 3      \* engine calls made in one round after DealCards
MaxEvents  == 2      \* turn commands and timer callbacks the handler runs
MaxStreets == 4      \* streets dealt before the other calls of a round
MaxRoundCalls == 2   \* other calls made in a round whose streets are dealt first
MaxContribution == 100  \* largest street bet CalculateSidePots is given
EvalPoolSize == 15  \* cards of EvalCards that evaluated hands are made of
ComparePoolSize == 10  \* cards of CompareCards that compared hands are made of

(* Program constants. *)

SmallBlindAmount == 5     \* smallBlind: 5 in NewHoldem / NewOmaha
BigBlindAmount   == 10    \* bigBlind: 10 in NewHoldem / NewOmaha
AnteAmount       == 5     \* ante: 5 in NewFiveCardDraw
FinalStage       == 3     \* "3: river", the stage IsRoundOver tests for
StartingMoney    == 1000  \* "money = 1000 // Starting money" in package db
CheatPenaltyDivisor == 50 \* cheatPenaltyRate = 0.02, a fiftieth

Nil == "nil"

GameTypes == {"holdem", "omaha", "five card draw"}

Nicks == <<"alice", "bob", "carol", "dave">>

\* Stacks the seats hold when a round starts, in seating order from some
\* seat on: money carries over from earlier rounds, so a stack can be
\* smaller than a blind or the ante.
StartStacks == <<MaxStack, 12, 3>>

\* Amounts a caller passes to Bet and Raise (strconv.Atoi accepts any int).
Amounts == {-5, 0, 5, MaxAmount}

----------------------------------------------------------------------------
(* Cards and the deck. *)

Suits == <<"Hearts", "Diamonds", "Clubs", "Spades">>

Values == <<"2", "3", "4", "5", "6", "7", "8", "9", "10", "J", "Q", "K", "A">>

\* game.GenerateDeck: suits in the outer loop, values in the inner loop.
GenerateDeck ==
    [i \in 1..(Len(Suits) * Len(Values)) |->
        [Suit  |-> Suits[((i - 1) \div Len(Values)) + 1],
         Value |-> Values[((i - 1) % Len(Values)) + 1]]]

\* s[from+1 .. Len(s)], the Go slice s[from:]
Drop(s, from) == SubSeq(s, from + 1, Len(s))

\* s[1 .. to], the Go slice s[:to]
Take(s, to) == SubSeq(s, 1, to)

----------------------------------------------------------------------------
(* Players and construction. *)

\* models.NewPlayer
NewPlayer(nick, money, handsWon) ==
    [Nick |-> nick, Money |-> money, HandsWon |-> handsWon,
     Hand |-> << >>, Bet |-> 0, Folded |-> FALSE]

\* modes.NewHoldem / modes.NewOmaha / modes.NewFiveCardDraw.  The variant
\* fields (stage, button, drawPhase) are kept in one record; a variant
\* ignores the fields it does not have.
NewGame(type) ==
    [Type |-> type, Players |-> << >>, Deck |-> GenerateDeck, River |-> << >>,
     Pot |-> 0, CurrentBet |-> 0, Turn |-> 0, InProgress |-> FALSE,
     stage |-> 0, button |-> 0, drawPhase |-> FALSE, sidePots |-> << >>]

\* BaseGame.AddPlayer
AddPlayer(g, player) == [g EXCEPT !.Players = Append(@, player)]

Seats(g) == 1..Len(g.Players)

SumMoney(ps) ==
    LET RECURSIVE Sum(_)
        Sum(i) == IF i = 0 THEN 0 ELSE ps[i].Money + Sum(i - 1)
    IN Sum(Len(ps))

NotFolded(g) == {i \in Seats(g) : ~g.Players[i].Folded}

----------------------------------------------------------------------------
(* The engine: operations on a game record g.  An operation that returns   *)
(* an error in Go yields a record [g |-> the game after the call,          *)
(* err |-> the error string or Nil].                                       *)

IsDraw(g) == g.Type = "five card draw"

\* number of hole cards a variant deals: the bound of the outer loop of
\* Holdem.DealCards (2), Omaha.DealCards (4), FiveCardDraw.DealCards (5)
HoleCards(g) ==
    CASE g.Type = "holdem" -> 2
      [] g.Type = "omaha"  -> 4
      [] OTHER             -> 5

\* BaseGame.ResetRound leaving the folded flags as they are
BaseResetRoundKeepsFolded(g) ==
    [g EXCEPT !.Players = [i \in Seats(g) |->
                              [g.Players[i] EXCEPT !.Bet = 0,
                                                   !.Hand = << >>]],
              !.Pot = 0,
              !.CurrentBet = 0,
              !.River = << >>,
              !.Deck = GenerateDeck]

\* BaseGame.ResetRound
BaseResetRound(g) ==
    [g EXCEPT !.Players = [i \in Seats(g) |->
                              [g.Players[i] EXCEPT !.Bet = 0,
                                                   !.Folded = FALSE,
                                                   !.Hand = << >>]],
              !.Pot = 0,
              !.CurrentBet = 0,
              !.River = << >>,
              !.Deck = GenerateDeck]

\* Holdem.ResetRound / Omaha.ResetRound / FiveCardDraw.ResetRound
ResetRound(g) ==
    LET b == BaseResetRound(g) IN
    IF IsDraw(g)
    THEN [b EXCEPT !.drawPhase = FALSE]
    ELSE [b EXCEPT !.stage = 0,
                   !.button = (g.button + 1) % Len(g.Players),
                   !.sidePots = << >>]

\* the two nested loops of DealCards: `rounds` passes over the seats, each
\* seat taking the top card of the deck
RECURSIVE DealLoop(_, _, _)
DealLoop(g, rounds, seat) ==
    IF rounds = 0 THEN g
    ELSE IF seat > Len(g.Players) THEN DealLoop(g, rounds - 1, 1)
    ELSE DealLoop([g EXCEPT !.Players[seat].Hand = Append(@, g.Deck[1]),
                            !.Deck = Drop(g.Deck, 1)],
                  rounds, seat + 1)

\* collectBlinds with the big blind put in the pot but not taken from the
\* stack of the seat that posts it
collectBlindsUnpaid(g) ==
    LET numPlayers == Len(g.Players)
        sbPos == (g.button + 1) % numPlayers
        bbPos == (g.button + 2) % numPlayers
        g1 == [g  EXCEPT !.Players[sbPos + 1].Bet = SmallBlindAmount,
                         !.Players[sbPos + 1].Money = @ - SmallBlindAmount,
                         !.Pot = @ + SmallBlindAmount]
        g2 == [g1 EXCEPT !.Players[bbPos + 1].Bet = BigBlindAmount,
                         !.Pot = @ + BigBlindAmount]
    IN [g2 EXCEPT !.CurrentBet = BigBlindAmount,
                  !.Turn = (bbPos + 1) % numPlayers]

\* collectBlinds leaving the turn with the seat that posts the big blind
collectBlindsTurnOnBlind(g) ==
    LET numPlayers == Len(g.Players)
        sbPos == (g.button + 1) % numPlayers
        bbPos == (g.button + 2) % numPlayers
        g1 == [g  EXCEPT !.Players[sbPos + 1].Bet = SmallBlindAmount,
                         !.Players[sbPos + 1].Money = @ - SmallBlindAmount,
                         !.Pot = @ + SmallBlindAmount]
        g2 == [g1 EXCEPT !.Players[bbPos + 1].Bet = BigBlindAmount,
                         !.Players[bbPos + 1].Money = @ - BigBlindAmount,
                         !.Pot = @ + BigBlindAmount]
    IN [g2 EXCEPT !.CurrentBet = BigBlindAmount,
                  !.Turn = bbPos]

\* Holdem.collectBlinds / Omaha.collectBlinds
collectBlinds(g) ==
    LET numPlayers == Len(g.Players)
        sbPos == (g.button + 1) % numPlayers
        bbPos == (g.button + 2) % numPlayers
        g1 == [g  EXCEPT !.Players[sbPos + 1].Bet = SmallBlindAmount,
                         !.Players[sbPos + 1].Money = @ - SmallBlindAmount,
                         !.Pot = @ + SmallBlindAmount]
        g2 == [g1 EXCEPT !.Players[bbPos + 1].Bet = BigBlindAmount,
                         !.Players[bbPos + 1].Money = @ - BigBlindAmount,
                         !.Pot = @ + BigBlindAmount]
    IN [g2 EXCEPT !.CurrentBet = BigBlindAmount,
                  !.Turn = (bbPos + 1) % numPlayers]

\* FiveCardDraw.collectAnte
collectAnte(g) ==
    [g EXCEPT !.Players = [i \in Seats(g) |->
                              [g.Players[i] EXCEPT !.Money = @ - AnteAmount]],
              !.Pot = @ + Len(g.Players) * AnteAmount,
              !.Turn = 0]

\* Holdem.DealCards / Omaha.DealCards / FiveCardDraw.DealCards
DealCards(g) ==
    LET dealt == DealLoop(g, HoleCards(g), 1) IN
    IF IsDraw(g) THEN collectAnte(dealt) ELSE collectBlinds(dealt)

\* resetBets leaving CurrentBet as the closed street had it
resetBetsKeepsCurrentBet(g) ==
    [g EXCEPT !.Players = [i \in Seats(g) |-> [g.Players[i] EXCEPT !.Bet = 0]],
              !.Turn = (g.button + 1) % Len(g.Players)]

\* Holdem.resetBets / Omaha.resetBets
resetBets(g) ==
    [g EXCEPT !.Players = [i \in Seats(g) |-> [g.Players[i] EXCEPT !.Bet = 0]],
              !.CurrentBet = 0,
              !.Turn = (g.button + 1) % Len(g.Players)]

\* UpdateRiver copying the top of the deck to the community cards without
\* taking it off the deck
UpdateRiverCopies(g) ==
    IF IsDraw(g) THEN [g EXCEPT !.drawPhase = TRUE]
    ELSE LET g1 == CASE g.stage = 0 ->
                          [g EXCEPT !.River = @ \o Take(g.Deck, 3)]
                     [] g.stage \in {1, 2} ->
                          [g EXCEPT !.River = Append(@, g.Deck[1])]
                     [] OTHER -> g
         IN resetBets([g1 EXCEPT !.stage = @ + 1])

\* Holdem.UpdateRiver / Omaha.UpdateRiver / FiveCardDraw.UpdateRiver
UpdateRiver(g) ==
    IF IsDraw(g) THEN [g EXCEPT !.drawPhase = TRUE]
    ELSE LET g1 == CASE g.stage = 0 ->
                          [g EXCEPT !.River = @ \o Take(g.Deck, 3),
                                    !.Deck = Drop(g.Deck, 3)]
                     [] g.stage \in {1, 2} ->
                          [g EXCEPT !.River = Append(@, g.Deck[1]),
                                    !.Deck = Drop(g.Deck, 1)]
                     [] OTHER -> g
         IN resetBets([g1 EXCEPT !.stage = @ + 1])

\* Bet taking the chips before the test against the amount to call
BetDeductsFirst(g, p, amount) ==
    IF amount > g.Players[p].Money
    THEN [g |-> g, err |-> "not enough money"]
    ELSE LET g1 == [g EXCEPT !.Players[p].Money = @ - amount,
                             !.Players[p].Bet = @ + amount,
                             !.Pot = @ + amount]
         IN IF amount < g.CurrentBet - g.Players[p].Bet
            THEN [g |-> g1, err |-> "bet must be at least the current bet"]
            ELSE [g   |-> IF g1.Players[p].Bet > g1.CurrentBet
                          THEN [g1 EXCEPT !.CurrentBet = g1.Players[p].Bet]
                          ELSE g1,
                  err |-> Nil]

\* Bet overwriting the player's street bet instead of adding to it
BetOverwritesStreetBet(g, p, amount) ==
    IF amount > g.Players[p].Money
    THEN [g |-> g, err |-> "not enough money"]
    ELSE IF amount < g.CurrentBet - g.Players[p].Bet
    THEN [g |-> g, err |-> "bet must be at least the current bet"]
    ELSE LET g1 == [g EXCEPT !.Players[p].Money = @ - amount,
                             !.Players[p].Bet = amount,
                             !.Pot = @ + amount]
         IN [g   |-> IF g1.Players[p].Bet > g1.CurrentBet
                     THEN [g1 EXCEPT !.CurrentBet = g1.Players[p].Bet]
                     ELSE g1,
             err |-> Nil]

\* Bet without the test of the amount against the current bet
BetWithoutMinimum(g, p, amount) ==
    IF amount > g.Players[p].Money
    THEN [g |-> g, err |-> "not enough money"]
    ELSE LET g1 == [g EXCEPT !.Players[p].Money = @ - amount,
                             !.Players[p].Bet = @ + amount,
                             !.Pot = @ + amount]
         IN [g   |-> IF g1.Players[p].Bet > g1.CurrentBet
                     THEN [g1 EXCEPT !.CurrentBet = g1.Players[p].Bet]
                     ELSE g1,
             err |-> Nil]

\* Holdem.Bet / Omaha.Bet / FiveCardDraw.Bet / BaseGame.Bet
Bet(g, p, amount) ==
    IF amount > g.Players[p].Money
    THEN [g |-> g, err |-> "not enough money"]
    ELSE IF amount < g.CurrentBet - g.Players[p].Bet
    THEN [g |-> g, err |-> "bet must be at least the current bet"]
    ELSE LET g1 == [g EXCEPT !.Players[p].Money = @ - amount,
                             !.Players[p].Bet = @ + amount,
                             !.Pot = @ + amount]
         IN [g   |-> IF g1.Players[p].Bet > g1.CurrentBet
                     THEN [g1 EXCEPT !.CurrentBet = g1.Players[p].Bet]
                     ELSE g1,
             err |-> Nil]

\* Holdem.Call / Omaha.Call / FiveCardDraw.Call / BaseGame.Call
Call(g, p) ==
    LET amountToCall == g.CurrentBet - g.Players[p].Bet
    IN Bet(g, p, amountToCall)

\* Raise taking its argument for the whole amount to put in
RaiseToAmount(g, p, amount) == Bet(g, p, amount)

\* Holdem.Raise / Omaha.Raise / FiveCardDraw.Raise / BaseGame.Raise
Raise(g, p, amount) ==
    LET totalBet == g.CurrentBet - g.Players[p].Bet + amount
    IN Bet(g, p, totalBet)

\* Check refusing a player whose street bet equals the current bet
CheckRefusesEqual(g, p) ==
    IF g.Players[p].Bet <= g.CurrentBet
    THEN [g |-> g, err |-> "cannot check, must call or raise"]
    ELSE [g |-> g, err |-> Nil]

\* Holdem.Check / Omaha.Check / FiveCardDraw.Check / BaseGame.Check
Check(g, p) ==
    IF g.Players[p].Bet < g.CurrentBet
    THEN [g |-> g, err |-> "cannot check, must call or raise"]
    ELSE [g |-> g, err |-> Nil]

\* Fold handing the player's street bet back out of the pot
FoldRefunds(g, p) ==
    [g EXCEPT !.Players[p].Folded = TRUE,
              !.Players[p].Money = @ + g.Players[p].Bet,
              !.Players[p].Bet = 0,
              !.Pot = @ - g.Players[p].Bet]

\* Holdem.Fold / Omaha.Fold / FiveCardDraw.Fold / BaseGame.Fold
Fold(g, p) == [g EXCEPT !.Players[p].Folded = TRUE]

\* the loop of BaseGame.NextTurn: step over folded seats.  It is entered
\* only when some seat is not folded; otherwise the Go loop never exits
\* (see NextTurnLoops).
RECURSIVE SkipFolded(_, _)
SkipFolded(g, turn) ==
    IF g.Players[turn + 1].Folded
    THEN SkipFolded(g, (turn + 1) % Len(g.Players))
    ELSE turn

\* the condition under which the loop of BaseGame.NextTurn never exits
NextTurnLoops(g) == \A i \in Seats(g) : g.Players[i].Folded

\* NextTurn without the loop over folded seats
NextTurnNoSkip(g) == [g EXCEPT !.Turn = (g.Turn + 1) % Len(g.Players)]

\* BaseGame.NextTurn, when its loop exits
NextTurn(g) ==
    [g EXCEPT !.Turn = SkipFolded(g, (g.Turn + 1) % Len(g.Players))]

\* the loop of IsRoundOver: does it reach a non-folded seat whose Bet
\* differs from CurrentBet (the early `return false`)?
BetMismatch(g) ==
    \E i \in Seats(g) : ~g.Players[i].Folded
                        /\ g.Players[i].Bet # g.CurrentBet

\* Holdem.IsRoundOver / Omaha.IsRoundOver / FiveCardDraw.IsRoundOver
IsRoundOver(g) ==
    IF BetMismatch(g) THEN FALSE
    ELSE LET activePlayers == Cardinality(NotFolded(g)) IN
         \/ activePlayers <= 1
         \/ IF IsDraw(g) THEN g.drawPhase ELSE g.stage = FinalStage

\* the least element of a non-empty set of numbers: the element a Go loop
\* over increasing positions meets first
Least(S) == CHOOSE x \in S : \A y \in S : x <= y

\* BaseGame.FindPlayer: the first seat of the nick, 0 for the nil it returns
\* when there is none
FindPlayer(g, nick) ==
    LET found == {i \in Seats(g) : g.Players[i].Nick = nick}
    IN IF found = {} THEN 0 ELSE Least(found)

\* BaseGame.RemovePlayer: the first seat of the nick is taken out
RemovePlayer(g, nick) ==
    LET i == FindPlayer(g, nick)
    IN IF i = 0 THEN g
       ELSE [g EXCEPT !.Players = Take(g.Players, i - 1) \o Drop(g.Players, i)]

\* Game.AddToPot
AddToPot(g, amount) == [g EXCEPT !.Pot = @ + amount]

\* the loop of FiveCardDraw.DrawCards over the indices (0-based, as in Go)
RECURSIVE DrawLoop(_, _, _)
DrawLoop(g, p, indices) ==
    IF indices = << >> THEN g
    ELSE LET index == Head(indices) IN
         IF index >= 0 /\ index < Len(g.Players[p].Hand)
         THEN LET deck == Append(g.Deck, g.Players[p].Hand[index + 1])
              IN DrawLoop([g EXCEPT !.Players[p].Hand[index + 1] = deck[1],
                                    !.Deck = Drop(deck, 1)],
                          p, Tail(indices))
         ELSE DrawLoop(g, p, Tail(indices))

\* FiveCardDraw.DrawCards
DrawCards(g, p, indices) ==
    IF ~g.drawPhase THEN g ELSE DrawLoop(g, p, indices)

----------------------------------------------------------------------------
(* The hand evaluator of package modes.  A Hand is a record                *)
(* [category, values]; a checker returns [ok, values].  A checker that     *)
(* ranges over a Go map meets the keys in any order, so it is the set of   *)
(* the results it can return.                                              *)

Hand(category, values) == [category |-> category, values |-> values]

Checked(ok, values) == [ok |-> ok, values |-> values]

\* fmt.Sscanf(card.Value, "%d", &value) on the values of a deck: the
\* decimal number the text spells, 0 when it spells none
Sscanf(text) ==
    CASE text = "2" -> 2 [] text = "3" -> 3 [] text = "4" -> 4
      [] text = "5" -> 5 [] text = "6" -> 6 [] text = "7" -> 7
      [] text = "8" -> 8 [] text = "9" -> 9 [] text = "10" -> 10
      [] OTHER -> 0

\* cardValue
cardValue(card) ==
    CASE card.Value = "A" -> 14
      [] card.Value = "K" -> 13
      [] card.Value = "Q" -> 12
      [] card.Value = "J" -> 11
      [] OTHER -> Sscanf(card.Value)

\* sort.Sort(sort.Reverse(sort.IntSlice(values)))
RECURSIVE SortReverse(_)
SortReverse(values) ==
    IF values = << >> THEN << >>
    ELSE LET i == CHOOSE k \in 1..Len(values) :
                     \A j \in 1..Len(values) : values[k] >= values[j]
         IN <<values[i]>> \o SortReverse(Take(values, i - 1) \o Drop(values, i))

\* sort.Ints(values)
SortInts(values) ==
    LET s == SortReverse(values)
    IN [i \in 1..Len(s) |-> s[Len(s) + 1 - i]]

\* min
min(a, b) == IF a < b THEN a ELSE b

\* filterBySuit
filterBySuit(cards, suit) == SelectSeq(cards, LAMBDA card : card.Suit = suit)

\* getValues
getValues(cards) == [i \in 1..Len(cards) |-> cardValue(cards[i])]

\* countValues: the map from each value held to the number of cards of it
countValues(cards) ==
    [value \in {cardValue(cards[i]) : i \in 1..Len(cards)} |->
        Cardinality({i \in 1..Len(cards) : cardValue(cards[i]) = value})]

\* containsValue
containsValue(values, target) == \E i \in 1..Len(values) : values[i] = target

\* removeDuplicates: the first occurrence of each value, in order
removeDuplicates(values) ==
    LET first == {i \in 1..Len(values) :
                     \A j \in 1..(i - 1) : values[j] # values[i]}
        RECURSIVE Keep(_)
        Keep(i) == IF i > Len(values) THEN << >>
                   ELSE IF i \in first THEN <<values[i]>> \o Keep(i + 1)
                   ELSE Keep(i + 1)
    IN Keep(1)

\* getKickers
getKickers(cards, excludeValues, count) ==
    LET kickers == SortReverse(SelectSeq(getValues(cards),
                        LAMBDA value : ~containsValue(excludeValues, value)))
    IN IF Len(kickers) > count THEN Take(kickers, count) ELSE kickers

\* the loop of isStraight from position i (0-based) down: the highest value
\* that ends a run of five, 0 when no position does
RECURSIVE StraightLoop(_, _)
StraightLoop(values, i) ==
    IF i < 4 THEN 0
    ELSE IF values[i + 1] - values[i - 3] = 4 THEN values[i + 1]
    ELSE StraightLoop(values, i - 1)

\* isStraight with the wheel ranked by its ace
StraightInAceHigh(values) ==
    IF Len(values) >= 5 /\ StraightLoop(values, Len(values) - 1) > 0
    THEN Checked(TRUE, <<StraightLoop(values, Len(values) - 1)>>)
    ELSE IF \A v \in {14, 2, 3, 4, 5} : containsValue(values, v)
    THEN Checked(TRUE, <<14>>)
    ELSE Checked(FALSE, << >>)

\* isStraight from the sorted values without duplicates on
StraightIn(values) ==
    IF Len(values) >= 5 /\ StraightLoop(values, Len(values) - 1) > 0
    THEN Checked(TRUE, <<StraightLoop(values, Len(values) - 1)>>)
    ELSE IF \A v \in {14, 2, 3, 4, 5} : containsValue(values, v)
    THEN Checked(TRUE, <<5>>)
    ELSE Checked(FALSE, << >>)

\* isStraight
isStraight(cards) == StraightIn(removeDuplicates(SortInts(getValues(cards))))

\* the loop of isStraightFlush from the suit at position k on: the first
\* suit whose cards make a straight
RECURSIVE StraightFlushLoop(_, _)
StraightFlushLoop(cards, k) ==
    IF k > Len(Suits) THEN Checked(FALSE, << >>)
    ELSE IF isStraight(filterBySuit(cards, Suits[k])).ok
    THEN isStraight(filterBySuit(cards, Suits[k]))
    ELSE StraightFlushLoop(cards, k + 1)

\* isStraightFlush looking for the straight in the cards of all suits
isStraightFlushAnySuit(cards) ==
    IF \E k \in 1..Len(Suits) : Len(filterBySuit(cards, Suits[k])) >= 5
    THEN isStraight(cards)
    ELSE Checked(FALSE, << >>)

\* isStraightFlush
isStraightFlush(cards) == StraightFlushLoop(cards, 1)

\* isRoyalFlush from the result of isStraightFlush on
RoyalIn(r) ==
    IF r.ok /\ r.values[1] = 14 THEN r ELSE Checked(FALSE, << >>)

\* isRoyalFlush
isRoyalFlush(cards) == RoyalIn(isStraightFlush(cards))

\* the keys of valueCounts whose count is at least n
CountedAtLeast(cards, n) ==
    LET valueCounts == countValues(cards)
    IN {value \in DOMAIN valueCounts : valueCounts[value] >= n}

\* isFourOfAKind: the first key of the map with four cards
isFourOfAKind(cards) ==
    IF CountedAtLeast(cards, 4) = {} THEN {Checked(FALSE, << >>)}
    ELSE {Checked(TRUE, <<value>> \o getKickers(cards, <<value>>, 1)) :
             value \in CountedAtLeast(cards, 4)}

\* the loop of isFullHouse over the keys still to come: the pairs
\* <<threeOfAKind, pair>> it can end with.  A key held once changes
\* neither variable, so only the keys held twice or more are ranged over.
RECURSIVE FullHouseLoop(_, _, _, _)
FullHouseLoop(counts, keys, threeOfAKind, pair) ==
    IF keys = {} THEN {<<threeOfAKind, pair>>}
    ELSE UNION {
           IF counts[value] >= 3 /\ value > threeOfAKind
           THEN FullHouseLoop(counts, keys \ {value}, value, pair)
           ELSE IF counts[value] >= 2 /\ value > pair
           THEN FullHouseLoop(counts, keys \ {value}, threeOfAKind, value)
           ELSE FullHouseLoop(counts, keys \ {value}, threeOfAKind, pair)
           : value \in keys}

\* isFullHouse
isFullHouse(cards) ==
    {IF e[1] > 0 /\ e[2] > 0 THEN Checked(TRUE, <<e[1], e[2]>>)
                             ELSE Checked(FALSE, << >>) :
        e \in FullHouseLoop(countValues(cards), CountedAtLeast(cards, 2), 0, 0)}

\* isFlush: the first suit, in the order of the loop, with five cards
isFlush(cards) ==
    LET made == {k \in 1..Len(Suits) : Len(filterBySuit(cards, Suits[k])) >= 5}
    IN IF made = {} THEN Checked(FALSE, << >>)
       ELSE Checked(TRUE,
               Take(SortReverse(getValues(filterBySuit(cards, Suits[Least(made)]))), 5))

\* isThreeOfAKind: the first key of the map with three cards
isThreeOfAKind(cards) ==
    IF CountedAtLeast(cards, 3) = {} THEN {Checked(FALSE, << >>)}
    ELSE {Checked(TRUE, <<value>> \o getKickers(cards, <<value>>, 2)) :
             value \in CountedAtLeast(cards, 3)}

\* a set of numbers as the sequence sort.Reverse leaves it in
RECURSIVE SetReverse(_)
SetReverse(S) ==
    IF S = {} THEN << >>
    ELSE LET top == CHOOSE x \in S : \A y \in S : x >= y
         IN <<top>> \o SetReverse(S \ {top})

\* isTwoPair
isTwoPair(cards) ==
    LET pairs == SetReverse(CountedAtLeast(cards, 2))
    IN IF Len(pairs) >= 2
       THEN Checked(TRUE, Take(pairs, 2) \o getKickers(cards, Take(pairs, 2), 1))
       ELSE Checked(FALSE, << >>)

\* isPair: the first key of the map with two cards
isPair(cards) ==
    IF CountedAtLeast(cards, 2) = {} THEN {Checked(FALSE, << >>)}
    ELSE {Checked(TRUE, <<value>> \o getKickers(cards, <<value>>, 3)) :
             value \in CountedAtLeast(cards, 2)}

\* isHighCard
isHighCard(cards) ==
    LET values == SortReverse(getValues(cards))
    IN Checked(TRUE, Take(values, min(5, Len(values))))

\* handCheckers: what the checker at each position of the list can return
handCheckers(cards) ==
    << {isRoyalFlush(cards)}, {isStraightFlush(cards)}, isFourOfAKind(cards),
       isFullHouse(cards), {isFlush(cards)}, {isStraight(cards)},
       isThreeOfAKind(cards), {isTwoPair(cards)}, isPair(cards),
       {isHighCard(cards)} >>

\* the loop of getBestHand from the checker at position `category` on (0-based)
RECURSIVE BestHandFrom(_, _)
BestHandFrom(checked, category) ==
    IF category >= Len(checked) THEN {}
    ELSE {Hand(9 - category, r.values) : r \in {c \in checked[category + 1] : c.ok}}
         \cup (IF \E c \in checked[category + 1] : ~c.ok
               THEN BestHandFrom(checked, category + 1) ELSE {})

\* getBestHand: the hands the call can return
getBestHand(cards) == BestHandFrom(handCheckers(cards), 0)

\* evaluateHoldemHand
evaluateHoldemHand(hole, community) == getBestHand(hole \o community)

\* evaluateOmahaHand
evaluateOmahaHand(hand, river) == getBestHand(hand \o river)

\* evaluateFiveCardDrawHand
evaluateFiveCardDrawHand(hand) == getBestHand(hand)

\* the positions Hand.beats compares before it returns
Differing(h, other) ==
    {i \in 1..Len(h.values) :
        i > Len(other.values) \/ h.values[i] # other.values[i]}

\* Hand.beats indexes other.values with the positions of h.values: it
\* panics when other.values ends before a difference is met
beatsPanics(h, other) ==
    /\ h.category = other.category
    /\ Differing(h, other) # {}
    /\ Least(Differing(h, other)) > Len(other.values)

\* Hand.beats with a tie won by the hand that is asked
beatsOnTie(h, other) ==
    IF h.category # other.category THEN h.category > other.category
    ELSE IF Differing(h, other) = {} THEN TRUE
    ELSE LET i == Least(Differing(h, other))
         IN h.values[i] > other.values[i]

\* Hand.beats comparing the values without looking at the categories
beatsByValues(h, other) ==
    IF Differing(h, other) = {} THEN FALSE
    ELSE LET i == Least(Differing(h, other))
         IN h.values[i] > other.values[i]

\* Hand.beats
beats(h, other) ==
    IF h.category # other.category THEN h.category > other.category
    ELSE IF Differing(h, other) = {} THEN FALSE
    ELSE LET i == Least(Differing(h, other))
         IN h.values[i] > other.values[i]

\* the hand EvaluateHands evaluates for a seat
evaluateHand(g, i) ==
    CASE g.Type = "holdem" -> evaluateHoldemHand(g.Players[i].Hand, g.River)
      [] g.Type = "omaha"  -> evaluateOmahaHand(g.Players[i].Hand, g.River)
      [] OTHER             -> evaluateFiveCardDrawHand(g.Players[i].Hand)

\* the loop of EvaluateHands passing over the seats without cards only
SkippedWithoutCards(g, i) ==
    g.Type = "holdem" /\ Len(g.Players[i].Hand) = 0

\* the seats the loop of EvaluateHands passes over: folded ones, and in
\* hold'em the ones without cards
Skipped(g, i) ==
    \/ g.Players[i].Folded
    \/ g.Type = "holdem" /\ Len(g.Players[i].Hand) = 0

\* the zero value of Hand: `var bestHand Hand`
NoHand == Hand(0, << >>)

\* the loop of EvaluateHands from seat i on.  A run records the seat that
\* is the winner so far (0 for nil), its hand, the hand evaluated for each
\* seat looked at, and whether Hand.beats panicked.
RECURSIVE EvaluateLoop(_, _, _)
EvaluateLoop(g, i, run) ==
    IF i > Len(g.Players) \/ run.panicked THEN {run}
    ELSE IF Skipped(g, i) THEN EvaluateLoop(g, i + 1, run)
    ELSE UNION {
           LET seen == [run EXCEPT !.hands[i] = playerHand] IN
           IF run.winner # 0 /\ beatsPanics(playerHand, run.bestHand)
           THEN {[seen EXCEPT !.panicked = TRUE]}
           ELSE IF run.winner = 0 \/ beats(playerHand, run.bestHand)
           THEN EvaluateLoop(g, i + 1,
                    [seen EXCEPT !.winner = i, !.bestHand = playerHand])
           ELSE EvaluateLoop(g, i + 1, seen)
           : playerHand \in evaluateHand(g, i)}

\* Holdem.EvaluateHands / Omaha.EvaluateHands / FiveCardDraw.EvaluateHands:
\* the runs the call can make
EvaluateHands(g) ==
    EvaluateLoop(g, 1, [winner |-> 0, bestHand |-> NoHand, panicked |-> FALSE,
                        hands |-> [i \in Seats(g) |-> NoHand]])

\* the seats EvaluateHands can return; none when it returns nil
EvaluateHandsResults(g) ==
    {run.winner : run \in {r \in EvaluateHands(g) : ~r.panicked}} \ {0}

----------------------------------------------------------------------------
(* Side pots. *)

\* sort.Slice(players, ... players[i].Bet < players[j].Bet): the seats in
\* an order of increasing Bet; sort.Slice is not stable, so seats of equal
\* Bet come in any order
SortedByBet(g) ==
    {order \in [Seats(g) -> Seats(g)] :
        /\ \A k, l \in Seats(g) : k # l => order[k] # order[l]
        /\ \A k, l \in Seats(g) :
              k < l => g.Players[order[k]].Bet <= g.Players[order[l]].Bet}

\* the inner loop of CalculateSidePots from seat i on: every seat gives
\* min(p.Bet, player.Bet) - prevBet to the pot and has its Bet reduced by
\* it; player.Bet is read again at every seat, after the reductions made
\* so far (players holds the same *models.Player pointers as h.Players)
RECURSIVE ContributionLoop(_, _, _, _, _)
ContributionLoop(g, player, prevBet, i, pot) ==
    IF i > Len(g.Players) THEN [g |-> g, pot |-> pot]
    ELSE LET contribution == min(g.Players[i].Bet, g.Players[player].Bet) - prevBet
         IN ContributionLoop([g EXCEPT !.Players[i].Bet = @ - contribution],
                             player, prevBet, i + 1, pot + contribution)

\* the outer loop of CalculateSidePots from position k of the sorted
\* players on
RECURSIVE SidePotsLoop(_, _, _, _)
SidePotsLoop(g, order, k, prevBet) ==
    IF k > Len(g.Players) THEN g
    ELSE LET player == order[k] IN
         IF g.Players[player].Folded THEN SidePotsLoop(g, order, k + 1, prevBet)
         ELSE LET r  == ContributionLoop(g, player, prevBet, 1, 0)
                  g1 == IF r.pot > 0
                        THEN [r.g EXCEPT !.sidePots = Append(@, r.pot)]
                        ELSE r.g
              IN SidePotsLoop(g1, order, k + 1, g1.Players[player].Bet)

\* Holdem.CalculateSidePots: the games the call can leave.  The bodies of
\* Omaha.CalculateSidePots and FiveCardDraw.CalculateSidePots are empty.
CalculateSidePots(g) ==
    IF g.Type # "holdem" THEN {g}
    ELSE {SidePotsLoop([g EXCEPT !.sidePots = << >>], order, 1, 0) :
             order \in SortedByBet(g)}

----------------------------------------------------------------------------
\* the nicks that talk in the channel
HNicks == {Nicks[1], Nicks[2]}

NickIndex(nick) == CHOOSE i \in 1..Len(Nicks) : Nicks[i] = nick

\* a row of the players table; NoRow for a nick the table does not hold
NoRow == [known |-> FALSE, money |-> 0, handsWon |-> 0]

Row(money, handsWon) == [known |-> TRUE, money |-> money, handsWon |-> handsWon]

EmptyTable == [n \in HNicks |-> NoRow]

----------------------------------------------------------------------------
(* The engine driven directly: a game is constructed, players are seated,  *)
(* a round is started with ResetRound and DealCards, and then any engine   *)
(* operation is called for any seat with any amount.  The engine does not  *)
(* check whose turn it is, so neither do these actions.                    *)

Op(op, p, amount, err) == [op |-> op, p |-> p, amount |-> amount, err |-> err]

\* The state after construction: NewHoldem / NewOmaha / NewFiveCardDraw
\* followed by AddPlayer for each seat, the stacks being StartStacks read
\* from any position on.
Init ==
    /\ \E type \in GameTypes, n \in 2..MaxPlayers, r \in 0..(Len(StartStacks) - 1) :
         game = [NewGame(type) EXCEPT
                    !.Players = [i \in 1..n |->
                        NewPlayer(Nicks[i],
                                  StartStacks[((i + r) % Len(StartStacks)) + 1],
                                  0)]]
    /\ phase = "new"
    /\ spinning = FALSE
    /\ calls = 0
    /\ startMoney = SumMoney(game.Players)
    /\ lastOp = Op("New", 0, 0, Nil)
    /\ currentTurn = ""
    /\ turnTimer = "none"
    /\ stray = 0
    /\ db = EmptyTable

DoResetRound ==
    /\ phase = "new"
    /\ game' = ResetRound(game)
    /\ phase' = "reset"
    /\ startMoney' = SumMoney(game.Players)
    /\ lastOp' = Op("ResetRound", 0, 0, Nil)
    /\ UNCHANGED <<spinning, calls>>
    /\ UNCHANGED handlerVars

DoDealCards ==
    /\ phase = "reset"
    /\ game' = DealCards(game)
    /\ phase' = "dealt"
    /\ lastOp' = Op("DealCards", 0, 0, Nil)
    /\ UNCHANGED <<spinning, calls, startMoney>>
    /\ UNCHANGED handlerVars

Playing == phase = "dealt" /\ ~spinning

\* one more call is made
Calling == Playing /\ calls < MaxCalls /\ calls' = calls + 1

DoBet ==
    /\ Calling
    /\ \E p \in Seats(game), amount \in Amounts :
         LET r == Bet(game, p, amount) IN
         /\ game' = r.g
         /\ lastOp' = Op("Bet", p, amount, r.err)
    /\ UNCHANGED <<phase, spinning, startMoney>>
    /\ UNCHANGED handlerVars

DoCall ==
    /\ Calling
    /\ \E p \in Seats(game) :
         LET r == Call(game, p) IN
         /\ game' = r.g
         /\ lastOp' = Op("Call", p, 0, r.err)
    /\ UNCHANGED <<phase, spinning, startMoney>>
    /\ UNCHANGED handlerVars

DoRaise ==
    /\ Calling
    /\ \E p \in Seats(game), amount \in Amounts :
         LET r == Raise(game, p, amount) IN
         /\ game' = r.g
         /\ lastOp' = Op("Raise", p, amount, r.err)
    /\ UNCHANGED <<phase, spinning, startMoney>>
    /\ UNCHANGED handlerVars

DoCheck ==
    /\ Calling
    /\ \E p \in Seats(game) :
         LET r == Check(game, p) IN
         /\ game' = r.g
         /\ lastOp' = Op("Check", p, 0, r.err)
    /\ UNCHANGED <<phase, spinning, startMoney>>
    /\ UNCHANGED handlerVars

DoFold ==
    /\ Calling
    /\ \E p \in Seats(game) :
         /\ game' = Fold(game, p)
         /\ lastOp' = Op("Fold", p, 0, Nil)
    /\ UNCHANGED <<phase, spinning, startMoney>>
    /\ UNCHANGED handlerVars

\* BaseGame.NextTurn: with every seat folded the call never returns
DoNextTurn ==
    /\ Calling
    /\ IF NextTurnLoops(game)
       THEN /\ spinning' = TRUE
            /\ game' = game
       ELSE /\ spinning' = FALSE
            /\ game' = NextTurn(game)
    /\ lastOp' = Op("NextTurn", 0, 0, Nil)
    /\ UNCHANGED <<phase, startMoney>>
    /\ UNCHANGED handlerVars

DoUpdateRiver ==
    /\ Calling
    /\ game' = UpdateRiver(game)
    /\ lastOp' = Op("UpdateRiver", 0, 0, Nil)
    /\ UNCHANGED <<phase, spinning, startMoney>>
    /\ UNCHANGED handlerVars

Next ==
    \/ DoResetRound
    \/ DoDealCards
    \/ DoBet
    \/ DoCall
    \/ DoRaise
    \/ DoCheck
    \/ DoFold
    \/ DoNextTurn
    \/ DoUpdateRiver

Spec == Init /\ [][Next]_vars

----------------------------------------------------------------------------
(* The engine driven through whole rounds: every seat starts with the      *)
(* stack package db gives a new player; streets can be dealt before any    *)
(* other call is made, so that a round reaches the river and the draw      *)
(* phase within the calls of one round; cards are drawn and the hands      *)
(* evaluated like any other engine call.                                   *)

\* index lists a caller passes to DrawCards (0-based; 5 is out of range
\* for a hand of five cards); the last list names the first card once for
\* every card of a deck
DrawIndices ==
    << <<0>>, <<4, 5>>, [k \in 1..Len(GenerateDeck) |-> 0] >>

RoundInit ==
    /\ \E type \in GameTypes, n \in 2..MaxPlayers :
         game = [NewGame(type) EXCEPT
                    !.Players = [i \in 1..n |->
                        NewPlayer(Nicks[i], StartingMoney, 0)]]
    /\ phase = "new"
    /\ spinning = FALSE
    /\ calls = 0
    /\ startMoney = SumMoney(game.Players)
    /\ lastOp = Op("New", 0, 0, Nil)
    /\ currentTurn = ""
    /\ turnTimer = "none"
    /\ stray = 0
    /\ db = EmptyTable

\* UpdateRiver called before any other call of the round
DoStreet ==
    /\ Playing
    /\ calls = 0
    /\ game.stage < MaxStreets
    /\ game' = UpdateRiver(game)
    /\ lastOp' = Op("UpdateRiver", 0, 0, Nil)
    /\ UNCHANGED <<phase, spinning, calls, startMoney>>
    /\ UNCHANGED handlerVars

\* one more call is made in the round
RoundCalling == Playing /\ calls < MaxRoundCalls /\ calls' = calls + 1

BetInRound ==
    /\ RoundCalling
    /\ \E p \in Seats(game), amount \in Amounts :
         LET r == Bet(game, p, amount) IN
         /\ game' = r.g
         /\ lastOp' = Op("Bet", p, amount, r.err)
    /\ UNCHANGED <<phase, spinning, startMoney>>
    /\ UNCHANGED handlerVars

CallInRound ==
    /\ RoundCalling
    /\ \E p \in Seats(game) :
         LET r == Call(game, p) IN
         /\ game' = r.g
         /\ lastOp' = Op("Call", p, 0, r.err)
    /\ UNCHANGED <<phase, spinning, startMoney>>
    /\ UNCHANGED handlerVars

FoldInRound ==
    /\ RoundCalling
    /\ \E p \in Seats(game) :
         /\ game' = Fold(game, p)
         /\ lastOp' = Op("Fold", p, 0, Nil)
    /\ UNCHANGED <<phase, spinning, startMoney>>
    /\ UNCHANGED handlerVars

\* lastOp.amount keeps the position in DrawIndices of the list passed
DoDrawCards ==
    /\ RoundCalling
    /\ IsDraw(game)
    /\ \E p \in Seats(game), choice \in 1..Len(DrawIndices) :
         /\ game' = DrawCards(game, p, DrawIndices[choice])
         /\ lastOp' = Op("DrawCards", p, choice, Nil)
    /\ UNCHANGED <<phase, spinning, startMoney>>
    /\ UNCHANGED handlerVars

\* EvaluateHands changes nothing: the seat it returns is kept in lastOp
\* (0 for nil)
DoEvaluateHands ==
    /\ RoundCalling
    /\ \E run \in EvaluateHands(game) :
         lastOp' = Op("EvaluateHands", run.winner, 0,
                      IF run.panicked THEN "panic" ELSE Nil)
    /\ UNCHANGED <<game, phase, spinning, startMoney>>
    /\ UNCHANGED handlerVars

\* after the calls of the round the next round is begun, once
DoNextRound ==
    /\ Playing
    /\ calls = MaxRoundCalls
    /\ calls' = calls + 1
    /\ game' = ResetRound(game)
    /\ phase' = "reset"
    /\ startMoney' = SumMoney(game.Players)
    /\ lastOp' = Op("ResetRound", 0, 0, Nil)
    /\ UNCHANGED spinning
    /\ UNCHANGED handlerVars

RoundNext ==
    \/ DoResetRound
    \/ DoNextRound
    \/ DoDealCards
    \/ DoStreet
    \/ BetInRound
    \/ CallInRound
    \/ FoldInRound
    \/ DoDrawCards
    \/ DoEvaluateHands

RoundSpec == RoundInit /\ [][RoundNext]_vars

----------------------------------------------------------------------------
(* CalculateSidePots applied to the street bets of a hold'em table: after  *)
(* the flop every seat bets an amount of Contributions (the lowest amount  *)
(* first, so that Bet accepts each of them), some seats fold, and the side *)
(* pots are calculated.                                                    *)

Contributions == {0, MaxContribution \div 2, MaxContribution}

\* Bet called once for every seat of `todo`, the lowest amount first
RECURSIVE BetAll(_, _, _)
BetAll(g, amounts, todo) ==
    IF todo = {} THEN g
    ELSE LET p == CHOOSE p \in todo : \A q \in todo :
                     \/ amounts[p] < amounts[q]
                     \/ amounts[p] = amounts[q] /\ p <= q
         IN BetAll(Bet(g, p, amounts[p]).g, amounts, todo \ {p})

\* Fold called for every seat of `todo`
RECURSIVE FoldAll(_, _)
FoldAll(g, todo) ==
    IF todo = {} THEN g
    ELSE LET p == Least(todo) IN FoldAll(Fold(g, p), todo \ {p})

PotInit ==
    /\ \E n \in 2..MaxPlayers :
       \E amounts \in [1..n -> Contributions], folded \in SUBSET (1..n) :
         LET seated == [NewGame("holdem") EXCEPT
                           !.Players = [i \in 1..n |->
                               NewPlayer(Nicks[i], StartingMoney, 0)]]
             flop   == UpdateRiver(DealCards(ResetRound(seated)))
         IN game = FoldAll(BetAll(flop, amounts, 1..n), folded)
    /\ phase = "bets"
    /\ spinning = FALSE
    /\ calls = 0
    /\ startMoney = Len(game.Players) * StartingMoney
    /\ lastOp = Op("Fold", 0, 0, Nil)
    /\ currentTurn = ""
    /\ turnTimer = "none"
    /\ stray = 0
    /\ db = EmptyTable

DoCalculateSidePots ==
    /\ phase = "bets"
    /\ \E g \in CalculateSidePots(game) : game' = g
    /\ phase' = "pots"
    /\ lastOp' = Op("CalculateSidePots", 0, 0, Nil)
    /\ UNCHANGED <<spinning, calls, startMoney>>
    /\ UNCHANGED handlerVars

PotNext == DoCalculateSidePots

PotSpec == PotInit /\ [][PotNext]_vars

----------------------------------------------------------------------------
(* The helper functions of the handler's cheating mechanism.               *)

\* models.Card
Card(suit, value) == [Suit |-> suit, Value |-> value]

\* the values from the highest down, as getHighestCards and
\* getRandomHighCards list them
HighValues ==
    <<"A", "K", "Q", "J", "10", "9", "8", "7", "6", "5", "4", "3", "2">>

\* straightValues of getPossibleStraightCards
StraightValues ==
    <<"A", "2", "3", "4", "5", "6", "7", "8", "9", "10", "J", "Q", "K", "A">>

\* containsCard
containsCard(cards, card) ==
    \E i \in 1..Len(cards) :
        cards[i].Suit = card.Suit /\ cards[i].Value = card.Value

\* tryMakeHand: each value takes its first suit that is not in usedCards
\* (a card the hand already holds is not looked at); << >> is the nil it
\* returns when some value has no such suit
tryMakeHand(values, usedCards) ==
    LET free(v) == {k \in 1..Len(Suits) :
                       ~containsCard(usedCards, Card(Suits[k], v))}
    IN IF \E i \in 1..Len(values) : free(values[i]) = {}
       THEN << >>
       ELSE [i \in 1..Len(values) |->
                Card(Suits[Least(free(values[i]))], values[i])]

\* getRandomHighCards: the first count cards not in usedCards, values from
\* the highest down and the four suits within a value
getRandomHighCards(usedCards, count) ==
    LET order == [i \in 1..(Len(HighValues) * Len(Suits)) |->
                     Card(Suits[((i - 1) % Len(Suits)) + 1],
                          HighValues[((i - 1) \div Len(Suits)) + 1])]
        Free(card) == ~containsCard(usedCards, card)
        hand == SelectSeq(order, Free)
    IN IF Len(hand) > count THEN Take(hand, count) ELSE hand

\* getHighestCards: the first count cards of the suit not in usedCards
getHighestCards(suit, usedCards, count) ==
    LET order == [i \in 1..Len(HighValues) |-> Card(suit, HighValues[i])]
        Free(card) == ~containsCard(usedCards, card)
        hand == SelectSeq(order, Free)
    IN IF Len(hand) > count THEN Take(hand, count) ELSE hand

\* the loop over possibleHands of getBestStartingHand,
\* getBestOmahaStartingHand and getBestFiveCardDrawHand
RECURSIVE FirstMadeHand(_, _, _)
FirstMadeHand(possibleHands, usedCards, count) ==
    IF possibleHands = << >> THEN getRandomHighCards(usedCards, count)
    ELSE LET newHand == tryMakeHand(Head(possibleHands), usedCards) IN
         IF newHand # << >> THEN newHand
         ELSE FirstMadeHand(Tail(possibleHands), usedCards, count)

\* getBestStartingHand
getBestStartingHand(usedCards) ==
    FirstMadeHand(<< <<"A", "A">>, <<"K", "K">>, <<"Q", "Q">>, <<"A", "K">>,
                     <<"J", "J">>, <<"10", "10">>, <<"A", "Q">>, <<"K", "Q">> >>,
                  usedCards, 2)

\* getBestOmahaStartingHand
getBestOmahaStartingHand(usedCards) ==
    FirstMadeHand(<< <<"A", "A", "K", "K">>, <<"A", "A", "Q", "Q">>,
                     <<"K", "K", "Q", "Q">>, <<"A", "K", "Q", "J">>,
                     <<"A", "A", "J", "10">>, <<"K", "K", "J", "10">> >>,
                  usedCards, 4)

\* getBestFiveCardDrawHand
getBestFiveCardDrawHand(usedCards) ==
    FirstMadeHand(<< <<"A", "K", "Q", "J", "10">>, <<"A", "A", "A", "A", "K">>,
                     <<"A", "A", "A", "K", "K">> >>,
                  usedCards, 5)

\* getFlushSuit: the suit of the first river card that is the third of its
\* suit, "" when there is none
getFlushSuit(river) ==
    LET count(i) == Cardinality({j \in 1..i : river[j].Suit = river[i].Suit})
        third == {i \in 1..Len(river) : count(i) >= 3}
    IN IF third = {} THEN "" ELSE river[Least(third)].Suit

\* getPossibleStraightCards: the river when three of some five consecutive
\* values are on it, << >> (nil) otherwise
getPossibleStraightCards(river) ==
    LET present(v) == \E j \in 1..Len(river) : river[j].Value = v
        count(i) == Cardinality({j \in 0..4 : present(StraightValues[i + j + 1])})
    IN IF \E i \in 0..9 : count(i) >= 3 THEN river ELSE << >>

\* getHighestPairOrCards: the hands it can return.  The loop over the map
\* of value counts meets the values in any order, so any value that is on
\* the river twice can be the one it makes a pair of.
getHighestPairOrCards(river, usedCards) ==
    LET count(v) == Cardinality({j \in 1..Len(river) : river[j].Value = v})
        pairs == {river[j].Value : j \in {k \in 1..Len(river) :
                                             count(river[k].Value) = 2}}
    IN IF pairs # {}
       THEN {tryMakeHand(<<v, v>>, usedCards) : v \in pairs}
       ELSE {getRandomHighCards(usedCards, 2)}

\* getBestPossibleHand: the hands it can return
getBestPossibleHand(river, usedCards) ==
    LET flushSuit == getFlushSuit(river)
        straightCards == getPossibleStraightCards(river)
    IN IF flushSuit # "" THEN {getHighestCards(flushSuit, usedCards, 2)}
       ELSE IF Len(straightCards) > 0
       THEN {getHighestCards(straightCards[1].Suit, usedCards, 2)}
       ELSE getHighestPairOrCards(river, usedCards)

\* getBestPossibleOmahaHand: the hands it can return
getBestPossibleOmahaHand(river, usedCards) ==
    {hand \o getRandomHighCards(usedCards \o hand, 2) :
        hand \in getBestPossibleHand(river, usedCards)}

\* strconv.Atoi on a text given as its sequence of characters: an optional
\* sign followed by one or more decimal digits
Digits == <<"0", "1", "2", "3", "4", "5", "6", "7", "8", "9">>

DigitValue(c) == (CHOOSE d \in 1..Len(Digits) : Digits[d] = c) - 1

IsDigit(c) == \E d \in 1..Len(Digits) : Digits[d] = c

RECURSIVE ParseDigits(_, _)
ParseDigits(text, acc) ==
    IF text = << >> THEN acc
    ELSE ParseDigits(Tail(text), 10 * acc + DigitValue(Head(text)))

Atoi(text) ==
    LET signed == Len(text) > 0 /\ Head(text) \in {"+", "-"}
        digits == IF signed THEN Tail(text) ELSE text
    IN IF Len(digits) = 0 \/ \E i \in 1..Len(digits) : ~IsDigit(digits[i])
       THEN [n |-> 0, err |-> "invalid syntax"]
       ELSE [n   |-> IF signed /\ Head(text) = "-"
                     THEN -ParseDigits(digits, 0)
                     ELSE ParseDigits(digits, 0),
             err |-> Nil]

\* the decimal text of a number, as a player types it
RECURSIVE DigitsOf(_)
DigitsOf(n) ==
    IF n < 10 THEN <<Digits[n + 1]>>
    ELSE Append(DigitsOf(n \div 10), Digits[(n % 10) + 1])

Itoa(n) == IF n < 0 THEN <<"-">> \o DigitsOf(-n) ELSE DigitsOf(n)

----------------------------------------------------------------------------
(* The IRC command handler (irc.Handler) of one channel.  A handler method  *)
(* is an operator on the record s of everything the handler can change:     *)
(*    game         h.games[channel], NoGame when the channel has no game    *)
(*    currentTurn  h.currentTurn[channel], "" when the key is absent        *)
(*    turnTimer    h.turnTimer[channel]: "none" when the key is absent,     *)
(*                 "pending" for a timer that will fire, "stopped" for one  *)
(*                 that was stopped or has fired                            *)
(*    stray        pending timers that h.turnTimer no longer refers to      *)
(*    db           the players table                                        *)
(*    spinning     the call is stuck in the loop of NextTurn                *)
(*    p, err, paid what the call did: the seat it acted on, the refusal it  *)
(*                 answered with, and the credits it made to winners        *)
(* and yields the set of records the call can end in.  A message and a      *)
(* timer callback are each taken as one step.                               *)

NoGame == [Type |-> Nil]

State ==
    [game |-> game, currentTurn |-> currentTurn, turnTimer |-> turnTimer,
     stray |-> stray, db |-> db, spinning |-> FALSE,
     p |-> 0, err |-> Nil, paid |-> << >>]

\* db.GetOrCreatePlayer: load the row of nick, inserting one with the
\* starting money when the nick is unknown
GetOrCreatePlayer(s, nick) ==
    IF s.db[nick].known
    THEN [s |-> s,
          player |-> NewPlayer(nick, s.db[nick].money, s.db[nick].handsWon)]
    ELSE [s |-> [s EXCEPT !.db[nick] = Row(StartingMoney, 0)],
          player |-> NewPlayer(nick, StartingMoney, 0)]

\* db.UpdatePlayer: UPDATE players SET money, hands_won WHERE nick; a
\* nick without a row changes nothing
UpdatePlayer(s, player) ==
    IF player.Nick \in DOMAIN s.db /\ s.db[player.Nick].known
    THEN [s EXCEPT !.db[player.Nick] = Row(player.Money, player.HandsWon)]
    ELSE s

\* Handler.startTurnTimer: the timer the map referred to is not stopped
startTurnTimer(s) ==
    [s EXCEPT !.turnTimer = "pending",
              !.stray = IF s.turnTimer = "pending" THEN @ + 1 ELSE @]

\* Handler.resetTurnTimer
resetTurnTimer(s) ==
    IF s.turnTimer # "none"
    THEN startTurnTimer([s EXCEPT !.turnTimer = "stopped"])
    ELSE s

\* Handler.endGame
endGame(s) ==
    [s EXCEPT !.turnTimer = "none", !.currentTurn = "", !.game = NoGame]

\* Handler.announceNextTurn
announceNextTurn(s) ==
    LET players == s.game.Players
        turn == s.game.Turn
    IN IF turn < 0 \/ turn >= Len(players)
       THEN endGame(s)
       ELSE startTurnTimer([s EXCEPT !.currentTurn = players[turn + 1].Nick])

\* Handler.nextTurn
nextTurn(s) ==
    IF s.game = NoGame THEN s
    ELSE IF NextTurnLoops(s.game) THEN [s EXCEPT !.spinning = TRUE]
    ELSE announceNextTurn([s EXCEPT !.game = NextTurn(s.game)])

\* Handler.startRound
startRound(s) ==
    LET g1 == [s.game EXCEPT !.InProgress = TRUE]
    IN nextTurn([s EXCEPT !.game = DealCards(ResetRound(g1))])

\* Handler.shouldEndGame
shouldEndGame(g) ==
    LET activePlayers == Cardinality({i \in Seats(g) : g.Players[i].Money > 0})
    IN activePlayers < 2

\* Handler.endRoundWithWinner
endRoundWithWinner(s, winner) ==
    LET pot == s.game.Pot
        g1 == [s.game EXCEPT !.Players[winner].Money = @ + pot,
                             !.Players[winner].HandsWon = @ + 1]
        s1 == UpdatePlayer([s EXCEPT !.game = g1], g1.Players[winner])
        s2 == [s1 EXCEPT !.paid = Append(@, [seat   |-> winner,
                                             nick   |-> g1.Players[winner].Nick,
                                             amount |-> pot])]
    IN IF shouldEndGame(s2.game) THEN endGame(s2) ELSE startRound(s2)

\* Handler.endRound: one outcome for each run of EvaluateHands that returns;
\* a run that returns nil ends the game
endRound(s) ==
    {IF run.winner = 0 THEN endGame(s) ELSE endRoundWithWinner(s, run.winner) :
        run \in {r \in EvaluateHands(s.game) : ~r.panicked}}

\* Handler.checkRoundEnd: the states it can leave, each with its result
checkRoundEnd(s) ==
    IF IsRoundOver(s.game)
    THEN LET activePlayers == Cardinality(NotFolded(s.game)) IN
         IF activePlayers <= 1
         THEN IF NotFolded(s.game) # {}
              THEN {[s |-> endRoundWithWinner(s, Least(NotFolded(s.game))),
                     over |-> TRUE]}
              ELSE {[s |-> endGame(s), over |-> TRUE]}
         ELSE {[s |-> s2, over |-> TRUE] : s2 \in endRound(s)}
    ELSE {[s |-> s, over |-> FALSE]}

\* Handler.checkAllPlayersInactive
checkAllPlayersInactive(s) ==
    IF s.game = NoGame THEN TRUE
    ELSE \A i \in Seats(s.game) : s.game.Players[i].Folded

\* Handler.handleTimeout
handleTimeout(s) ==
    IF s.game = NoGame THEN {s}
    ELSE LET player == FindPlayer(s.game, s.currentTurn) IN
         IF player = 0 THEN {s}
         ELSE LET s1 == [s EXCEPT !.game = Fold(s.game, player), !.p = player]
              IN IF checkAllPlayersInactive(s1)
                 THEN {endGame(s1)}
                 ELSE {IF r.over THEN r.s ELSE nextTurn(r.s) :
                          r \in checkRoundEnd(s1)}

\* Handler.handleStartGame; gameType is the second word of the message
handleStartGame(s, gameType) ==
    IF s.game # NoGame THEN {[s EXCEPT !.err = "already in progress"]}
    ELSE CASE gameType \in {"holdem", "omaha"} ->
                {[s EXCEPT !.game = NewGame(gameType), !.currentTurn = ""]}
           [] gameType \in {"five card draw", "fivecarddraw"} ->
                {[s EXCEPT !.game = NewGame("five card draw"),
                           !.currentTurn = ""]}
           [] OTHER -> {[s EXCEPT !.err = "invalid game type"]}

\* Handler.handleJoinGame
handleJoinGame(s, nick) ==
    IF s.game = NoGame THEN {[s EXCEPT !.err = "no game"]}
    ELSE IF s.game.InProgress THEN {[s EXCEPT !.err = "already in progress"]}
    ELSE LET r == GetOrCreatePlayer(s, nick)
             s1 == [r.s EXCEPT !.game = AddPlayer(s.game, r.player),
                               !.p = Len(s.game.Players) + 1]
         IN IF Len(s1.game.Players) = 2 THEN {startRound(s1)} ELSE {s1}

\* Handler.handleBet; arguments is event.Arguments[1:], the arguments after
\* the channel
handleBet(s, nick, arguments) ==
    IF s.game = NoGame THEN {[s EXCEPT !.err = "no game"]}
    ELSE LET player == FindPlayer(s.game, nick) IN
         IF player = 0 THEN {[s EXCEPT !.err = "not in the game"]}
         ELSE IF Len(arguments) < 1 THEN {[s EXCEPT !.err = "usage"]}
         ELSE LET amount == Atoi(arguments[1]) IN
              IF amount.err # Nil THEN {[s EXCEPT !.err = "invalid amount"]}
              ELSE LET r == Bet(s.game, player, amount.n) IN
                   IF r.err # Nil
                   THEN {[s EXCEPT !.p = player, !.err = r.err]}
                   ELSE {nextTurn([s EXCEPT !.game = r.g, !.p = player])}

\* Handler.handleCall
handleCall(s, nick) ==
    IF s.game = NoGame THEN {[s EXCEPT !.err = "no game"]}
    ELSE LET player == FindPlayer(s.game, nick) IN
         IF player = 0 THEN {[s EXCEPT !.err = "not in the game"]}
         ELSE LET r == Call(s.game, player) IN
              IF r.err # Nil THEN {[s EXCEPT !.p = player, !.err = r.err]}
              ELSE {nextTurn([s EXCEPT !.game = r.g, !.p = player])}

\* Handler.handleRaise
handleRaise(s, nick, arguments) ==
    IF s.game = NoGame THEN {[s EXCEPT !.err = "no game"]}
    ELSE LET player == FindPlayer(s.game, nick) IN
         IF player = 0 THEN {[s EXCEPT !.err = "not in the game"]}
         ELSE IF Len(arguments) < 1 THEN {[s EXCEPT !.err = "usage"]}
         ELSE LET amount == Atoi(arguments[1]) IN
              IF amount.err # Nil THEN {[s EXCEPT !.err = "invalid amount"]}
              ELSE LET r == Raise(s.game, player, amount.n) IN
                   IF r.err # Nil
                   THEN {[s EXCEPT !.p = player, !.err = r.err]}
                   ELSE {nextTurn([s EXCEPT !.game = r.g, !.p = player])}

\* Handler.handleFold
handleFold(s, nick) ==
    IF s.game = NoGame THEN {[s EXCEPT !.err = "no game"]}
    ELSE LET player == FindPlayer(s.game, nick) IN
         IF player = 0 THEN {[s EXCEPT !.err = "not in the game"]}
         ELSE LET s1 == [s EXCEPT !.game = Fold(s.game, player), !.p = player]
              IN {IF r.over THEN r.s ELSE nextTurn(r.s) :
                     r \in checkRoundEnd(s1)}

\* Handler.handleCheck
handleCheck(s, nick) ==
    IF s.game = NoGame THEN {[s EXCEPT !.err = "no game"]}
    ELSE LET player == FindPlayer(s.game, nick) IN
         IF player = 0 THEN {[s EXCEPT !.err = "not in the game"]}
         ELSE LET r == Check(s.game, player) IN
              IF r.err # Nil THEN {[s EXCEPT !.p = player, !.err = r.err]}
              ELSE {nextTurn([s EXCEPT !.game = r.g, !.p = player])}

\* Handler.handleDraw; the indices a player gives count from 1
handleDraw(s, nick, arguments) ==
    IF s.game = NoGame THEN {[s EXCEPT !.err = "no game"]}
    ELSE IF ~IsDraw(s.game) THEN {[s EXCEPT !.err = "only in five card draw"]}
    ELSE LET player == FindPlayer(s.game, nick) IN
         IF player = 0 THEN {[s EXCEPT !.err = "not in the game"]}
         ELSE IF Len(arguments) < 1 THEN {[s EXCEPT !.err = "usage"]}
         ELSE IF \E k \in 1..Len(arguments) : Atoi(arguments[k]).err # Nil
         THEN {[s EXCEPT !.err = "invalid index"]}
         ELSE LET indices == [k \in 1..Len(arguments) |->
                                 Atoi(arguments[k]).n - 1]
                  g1 == DrawCards(s.game, player, indices)
              IN {nextTurn([s EXCEPT !.game = g1, !.p = player])}

\* Handler.getAllOtherPlayerCards: the hands of all non-folded seats, the
\* hand of the calling player among them
getAllOtherPlayerCards(g) ==
    LET RECURSIVE Cards(_)
        Cards(i) == IF i > Len(g.Players) THEN << >>
                    ELSE IF g.Players[i].Folded THEN Cards(i + 1)
                    ELSE g.Players[i].Hand \o Cards(i + 1)
    IN Cards(1)

\* Handler.handleSuccessfulCheat with handleHoldemCheat, handleOmahaCheat
\* and handleFiveCardDrawCheat: the hands the player can be given
CheatHands(g, player) ==
    LET river == g.River
        others == getAllOtherPlayerCards(g)
    IN CASE g.Type = "holdem" ->
              IF g.stage = 0 THEN {getBestStartingHand(river \o others)}
              ELSE IF g.stage \in {1, 2, 3}
              THEN getBestPossibleHand(river, river \o others)
              ELSE {g.Players[player].Hand}
         [] g.Type = "omaha" ->
              IF g.stage = 0 THEN {getBestOmahaStartingHand(river \o others)}
              ELSE IF g.stage \in {1, 2, 3}
              THEN getBestPossibleOmahaHand(river, river \o others)
              ELSE {g.Players[player].Hand}
         [] OTHER -> {getBestFiveCardDrawHand(others)}

\* Handler.handleSuccessfulCheat
handleSuccessfulCheat(s, player) ==
    {[s EXCEPT !.game.Players[player].Hand = hand, !.p = player] :
        hand \in CheatHands(s.game, player)}

\* the penalty of handleFailedCheat, int(float64(Money) * cheatPenaltyRate):
\* a fiftieth of the money, truncated towards zero
Penalty(money) ==
    IF money >= 0 THEN money \div CheatPenaltyDivisor
    ELSE -((-money) \div CheatPenaltyDivisor)

\* Handler.handleFailedCheat: the player is taken off the table, their street
\* bet and the penalty are added to the pot, and the penalised stack is saved
handleFailedCheat(s, player) ==
    LET pl == s.game.Players[player]
        penalty == Penalty(pl.Money)
        g1 == RemovePlayer(s.game, pl.Nick)
        g2 == AddToPot(AddToPot(g1, pl.Bet), penalty)
        s1 == UpdatePlayer([s EXCEPT !.game = g2, !.p = player,
                                     !.err = "cheat failed"],
                           [pl EXCEPT !.Money = @ - penalty])
    IN {IF r.over THEN r.s ELSE nextTurn(r.s) : r \in checkRoundEnd(s1)}

\* Handler.handleCheat; lucky is rand.Intn(cheatSuccessRate) == 0
handleCheat(s, nick, lucky) ==
    IF s.game = NoGame THEN {[s EXCEPT !.err = "no game"]}
    ELSE LET player == FindPlayer(s.game, nick) IN
         IF player = 0 THEN {[s EXCEPT !.err = "not in the game"]}
         ELSE IF lucky THEN handleSuccessfulCheat(s, player)
         ELSE handleFailedCheat(s, player)

\* handleMessage without the test of h.currentTurn
handleMessageAnyNick(s, nick, command, arg) ==
    CASE command = "$start" -> handleStartGame(s, arg)
      [] command = "$join"  -> handleJoinGame(s, nick)
      [] OTHER ->
           LET s1 == resetTurnTimer(s) IN
           CASE command = "$bet"   -> handleBet(s1, nick, arg)
             [] command = "$call"  -> handleCall(s1, nick)
             [] command = "$raise" -> handleRaise(s1, nick, arg)
             [] command = "$fold"  -> handleFold(s1, nick)
             [] command = "$check" -> handleCheck(s1, nick)
             [] command = "$draw"  -> handleDraw(s1, nick, arg)
             [] command = "$cheat" -> handleCheat(s1, nick, arg)
             [] OTHER              -> {s1}

\* Handler.handleMessage for a message that passes rateLimitCheck (one that
\* does not is dropped and changes nothing but h.lastCommand, which only
\* rateLimitCheck reads)
handleMessage(s, nick, command, arg) ==
    CASE command = "$start" -> handleStartGame(s, arg)
      [] command = "$join"  -> handleJoinGame(s, nick)
      [] OTHER ->
           IF s.currentTurn # nick THEN {[s EXCEPT !.err = "not your turn"]}
           ELSE LET s1 == resetTurnTimer(s) IN
                CASE command = "$bet"   -> handleBet(s1, nick, arg)
                  [] command = "$call"  -> handleCall(s1, nick)
                  [] command = "$raise" -> handleRaise(s1, nick, arg)
                  [] command = "$fold"  -> handleFold(s1, nick)
                  [] command = "$check" -> handleCheck(s1, nick)
                  [] command = "$draw"  -> handleDraw(s1, nick, arg)
                  [] command = "$cheat" -> handleCheat(s1, nick, arg)
                  [] OTHER              -> {s1}

----------------------------------------------------------------------------
(* The handler driven by the channel: any nick sends any command at any    *)
(* time, and any pending timer fires at any time.                          *)

\* the record of a handled message or timer callback: the command, the
\* sender, and what the call did
HOp(op, nick, s) ==
    [op |-> op, nick |-> nick, p |-> s.p, err |-> s.err, paid |-> s.paid]

\* the handler ends its call in s
Commit(s) ==
    /\ game' = s.game
    /\ currentTurn' = s.currentTurn
    /\ turnTimer' = s.turnTimer
    /\ stray' = s.stray
    /\ db' = s.db
    /\ spinning' = s.spinning

\* what players send after $start, and after $bet, $raise and $draw
StartArguments == {"holdem", "omaha", "fivecarddraw", "five"}

AmountArguments ==
    {<<Itoa(amount)>> : amount \in Amounts} \cup {<< >>, <<<<"a", "l", "l">>>>}

DrawArguments == {<<Itoa(1)>>, <<Itoa(2), Itoa(9)>>, <<Itoa(1), <<"x">>>>}

\* the players table the bot starts with: empty, or holding the stacks
\* StartStacks, read from any position on, from earlier runs
Tables ==
    {EmptyTable} \cup
    {[n \in HNicks |->
        Row(StartStacks[((NickIndex(n) + r) % Len(StartStacks)) + 1], 0)] :
        r \in 0..(Len(StartStacks) - 1)}

\* NewHandler, and db.Initialize on the players table
HInit ==
    /\ game = NoGame
    /\ currentTurn = ""
    /\ turnTimer = "none"
    /\ stray = 0
    /\ db \in Tables
    /\ phase = "handler"
    /\ spinning = FALSE
    /\ calls = 0
    /\ startMoney = 0
    /\ lastOp = [op |-> "NewHandler", nick |-> "",
                 p |-> 0, err |-> Nil, paid |-> << >>]

\* the handler goroutine is not stuck and the program has not died of a
\* panic outside handleMessage
Serving == ~spinning /\ phase # "crashed"

\* one more command of a turn, or one more timer callback, is handled
Handling == Serving /\ calls < MaxEvents /\ calls' = calls + 1

Message(nick, command, arg) ==
    \E s \in handleMessage(State, nick, command, arg) :
        /\ Commit(s)
        /\ lastOp' = HOp(command, nick, s)
        /\ UNCHANGED <<phase, startMoney>>

HStart ==
    /\ Serving
    /\ \E nick \in HNicks, gameType \in StartArguments :
         Message(nick, "$start", gameType)
    /\ UNCHANGED calls

HJoin ==
    /\ Serving
    /\ \E nick \in HNicks : Message(nick, "$join", Nil)
    /\ UNCHANGED calls

HBet ==
    /\ Handling
    /\ \E nick \in HNicks, arguments \in AmountArguments :
         Message(nick, "$bet", arguments)

HCall ==
    /\ Handling
    /\ \E nick \in HNicks : Message(nick, "$call", Nil)

HRaise ==
    /\ Handling
    /\ \E nick \in HNicks, arguments \in AmountArguments :
         Message(nick, "$raise", arguments)

HFold ==
    /\ Handling
    /\ \E nick \in HNicks : Message(nick, "$fold", Nil)

HCheck ==
    /\ Handling
    /\ \E nick \in HNicks : Message(nick, "$check", Nil)

HDraw ==
    /\ Handling
    /\ \E nick \in HNicks, arguments \in DrawArguments :
         Message(nick, "$draw", arguments)

HCheat ==
    /\ Handling
    /\ \E nick \in HNicks, lucky \in BOOLEAN :
         Message(nick, "$cheat", lucky)

\* the ways a pending timer can fire: the timer h.turnTimer refers to, or
\* one it no longer refers to
Firings ==
    (IF turnTimer = "pending"
     THEN {[State EXCEPT !.turnTimer = "stopped"]} ELSE {})
    \cup (IF stray > 0 THEN {[State EXCEPT !.stray = @ - 1]} ELSE {})

\* a pending timer fires and its callback runs handleTimeout
HTimeout ==
    /\ Handling
    /\ \E fired \in Firings : \E s \in handleTimeout(fired) :
            /\ Commit(s)
            /\ lastOp' = HOp("timeout", currentTurn, s)
    /\ UNCHANGED <<phase, startMoney>>

HNext ==
    \/ HStart
    \/ HJoin
    \/ HBet
    \/ HCall
    \/ HRaise
    \/ HFold
    \/ HCheck
    \/ HDraw
    \/ HCheat
    \/ HTimeout

HSpec == HInit /\ [][HNext]_vars

----------------------------------------------------------------------------
(* The handler with its two goroutines.  handleMessage runs on the         *)
(* goroutine of the connection and handleTimeout on the goroutine of the   *)
(* timer that fired; neither takes a lock on the game.  Here the callback  *)
(* of a timer may also be taken in two steps, up to game.Fold and from     *)
(* checkAllPlayersInactive on, with messages handled in between; phase is  *)
(* "folding" between the two steps.                                         *)

\* Handler.handleTimeout up to game.Fold(player); a callback that returns
\* earlier has nothing left to interleave
handleTimeoutFold(s) ==
    IF s.game = NoGame THEN {}
    ELSE LET player == FindPlayer(s.game, s.currentTurn) IN
         IF player = 0 THEN {}
         ELSE {[s EXCEPT !.game = Fold(s.game, player), !.p = player]}

\* Handler.handleTimeout from checkAllPlayersInactive on.  Every call reads
\* h.games[channel] again: when the game is gone checkAllPlayersInactive
\* answers true and endGame calls GetPlayers on a nil game, a panic that
\* nothing on the goroutine of the timer recovers
handleTimeoutChecks(s) ==
    IF s.game = NoGame THEN {[s EXCEPT !.err = "panic"]}
    ELSE IF checkAllPlayersInactive(s) THEN {endGame(s)}
    ELSE {IF r.over THEN r.s ELSE nextTurn(r.s) : r \in checkRoundEnd(s)}

\* a pending timer fires and its callback folds the player on turn
HTimeoutFold ==
    /\ Handling
    /\ phase = "handler"
    /\ \E fired \in Firings : \E s \in handleTimeoutFold(fired) :
            /\ Commit(s)
            /\ lastOp' = HOp("timeout fold", currentTurn, s)
    /\ phase' = "folding"
    /\ UNCHANGED startMoney

\* the callback that folded goes on
HTimeoutChecks ==
    /\ Serving
    /\ phase = "folding"
    /\ \E s \in handleTimeoutChecks(State) :
            /\ Commit(s)
            /\ lastOp' = HOp("timeout", currentTurn, s)
            /\ phase' = IF s.err = "panic" THEN "crashed" ELSE "handler"
    /\ UNCHANGED <<calls, startMoney>>

RaceNext ==
    \/ HStart
    \/ HJoin
    \/ HBet
    \/ HCall
    \/ HRaise
    \/ HFold
    \/ HCheck
    \/ HDraw
    \/ HCheat
    \/ HTimeout
    \/ HTimeoutFold
    \/ HTimeoutChecks

RaceSpec == HInit /\ [][RaceNext]_vars

----------------------------------------------------------------------------
(* getBestHand applied to hands of five to seven distinct cards.  The      *)
(* cards are taken from the first EvalPoolSize cards of EvalCards, which   *)
(* hold a royal flush, the wheel, a six-high run, four aces and three      *)
(* kings.  The hand is evaluated once in the order of the list and once    *)
(* more in the reverse order.                                              *)

EvalCards ==
    << Card("Hearts", "10"), Card("Hearts", "J"), Card("Hearts", "Q"),
       Card("Hearts", "K"), Card("Hearts", "A"),
       Card("Diamonds", "2"), Card("Diamonds", "3"), Card("Diamonds", "4"),
       Card("Diamonds", "5"), Card("Diamonds", "6"),
       Card("Diamonds", "A"), Card("Clubs", "A"), Card("Spades", "A"),
       Card("Diamonds", "K"), Card("Clubs", "K"),
       Card("Clubs", "6") >>

\* the cards of a hand: five of five card draw, up to seven of hold'em
EvalSizes == 5..7

\* the cards of EvalCards at the positions S, in the order of the list
RECURSIVE Picked(_, _, _)
Picked(cards, S, i) ==
    IF i > Len(cards) THEN << >>
    ELSE IF i \in S THEN <<cards[i]>> \o Picked(cards, S, i + 1)
    ELSE Picked(cards, S, i + 1)

Reversed(cards) == [i \in 1..Len(cards) |-> cards[Len(cards) + 1 - i]]

\* the record of a call of getBestHand: the cards evaluated, the hand
\* returned, and the hand a second call returned
EvalOp(op, cards, hand, again) ==
    [op |-> op, cards |-> cards, hand |-> hand, again |-> again]

EvalInit ==
    /\ \E S \in SUBSET (1..EvalPoolSize) :
         /\ Cardinality(S) \in EvalSizes
         /\ lastOp = EvalOp("cards", Picked(EvalCards, S, 1), NoHand, NoHand)
    /\ game = NoGame
    /\ phase = "cards"
    /\ spinning = FALSE
    /\ calls = 0
    /\ startMoney = 0
    /\ currentTurn = ""
    /\ turnTimer = "none"
    /\ stray = 0
    /\ db = EmptyTable

DoGetBestHand ==
    /\ phase = "cards"
    /\ \E hand \in getBestHand(lastOp.cards) :
         lastOp' = EvalOp("getBestHand", lastOp.cards, hand, NoHand)
    /\ phase' = "evaluated"
    /\ UNCHANGED <<game, spinning, calls, startMoney>>
    /\ UNCHANGED handlerVars

DoGetBestHandAgain ==
    /\ phase = "evaluated"
    /\ \E again \in getBestHand(Reversed(lastOp.cards)) :
         lastOp' = EvalOp("getBestHand", lastOp.cards, lastOp.hand, again)
    /\ phase' = "evaluated again"
    /\ UNCHANGED <<game, spinning, calls, startMoney>>
    /\ UNCHANGED handlerVars

EvalNext ==
    \/ DoGetBestHand
    \/ DoGetBestHandAgain

EvalSpec == EvalInit /\ [][EvalNext]_vars

----------------------------------------------------------------------------
(* Hand.beats applied to the hands of two players, as the loop of          *)
(* EvaluateHands applies it: both hands are five cards of the first        *)
(* ComparePoolSize cards of CompareCards, which hold a hand of every       *)
(* category.                                                               *)

CompareCards ==
    << Card("Hearts", "9"), Card("Hearts", "10"), Card("Hearts", "J"),
       Card("Hearts", "Q"), Card("Hearts", "K"), Card("Hearts", "A"),
       Card("Diamonds", "A"), Card("Clubs", "A"), Card("Spades", "A"),
       Card("Diamonds", "K"), Card("Diamonds", "9") >>

\* the record of a comparison: the cards of the two players, the hands
\* getBestHand returned for them, and what beats returned each way
CompareOp(op, cards, other, hand, otherHand, won, lost, err) ==
    [op |-> op, cards |-> cards, other |-> other, hand |-> hand,
     otherHand |-> otherHand, won |-> won, lost |-> lost, err |-> err]

\* a number for each set of positions, to take every pair of hands once:
\* DoBeats asks both hands
RECURSIVE Code(_)
Code(S) == IF S = {} THEN 0
           ELSE LET i == CHOOSE i \in S : TRUE IN 2 ^ i + Code(S \ {i})

CompareInit ==
    /\ \E S \in SUBSET (1..ComparePoolSize), T \in SUBSET (1..ComparePoolSize) :
         /\ Cardinality(S) = 5
         /\ Cardinality(T) = 5
         /\ Code(S) <= Code(T)
         /\ lastOp = CompareOp("cards", Picked(CompareCards, S, 1),
                               Picked(CompareCards, T, 1),
                               NoHand, NoHand, FALSE, FALSE, Nil)
    /\ game = NoGame
    /\ phase = "cards"
    /\ spinning = FALSE
    /\ calls = 0
    /\ startMoney = 0
    /\ currentTurn = ""
    /\ turnTimer = "none"
    /\ stray = 0
    /\ db = EmptyTable

\* both hands are evaluated and each is asked whether it beats the other
DoBeats ==
    /\ phase = "cards"
    /\ \E hand \in getBestHand(lastOp.cards),
          otherHand \in getBestHand(lastOp.other) :
         lastOp' =
            IF beatsPanics(hand, otherHand) \/ beatsPanics(otherHand, hand)
            THEN CompareOp("beats", lastOp.cards, lastOp.other, hand,
                           otherHand, FALSE, FALSE, "panic")
            ELSE CompareOp("beats", lastOp.cards, lastOp.other, hand,
                           otherHand, beats(hand, otherHand),
                           beats(otherHand, hand), Nil)
    /\ phase' = "compared"
    /\ UNCHANGED <<game, spinning, calls, startMoney>>
    /\ UNCHANGED handlerVars

CompareNext == DoBeats

CompareSpec == CompareInit /\ [][CompareNext]_vars

----------------------------------------------------------------------------
(* Properties of the engine, checked under Spec, and of the handler,       *)
(* checked under HSpec.                                                    *)

Dealt == phase = "dealt"

\* the step is a call of `op` (every action records its call in lastOp)
Called(op) == lastOp'.op = op

Accepted == lastOp'.err = Nil

\* C1: chip conservation within a round.  From ResetRound on, through
\* DealCards (blinds and antes) and any sequence of Bet, Call, Raise, Check,
\* Fold, NextTurn and UpdateRiver calls, accepted or rejected, Pot plus the
\* sum of all players' Money equals the sum of all Money at round start.
ChipConservation ==
    phase \in {"reset", "dealt"}
        => game.Pot + SumMoney(game.Players) = startMoney

\* a round in which chips were bet on top of the forced bets, a seat has
\* folded and a street has been dealt
ChipConservationWitness ==
    /\ Dealt
    /\ lastOp.op \in {"Bet", "Call", "Raise"}
    /\ lastOp.err = Nil
    /\ lastOp.amount > 0
    /\ game.Pot > SmallBlindAmount + BigBlindAmount
    /\ NotFolded(game) # Seats(game)
    /\ game.stage > 0

\* C2: a player's stack is never negative.
StackNeverNegative ==
    \A i \in Seats(game) : game.Players[i].Money >= 0

\* C3: Bet returns an error when amount > player.Money and when
\* amount < CurrentBet - player.Bet; when Bet, Call or Raise returns an
\* error, the whole game (every Money, Bet and folded flag, Pot, CurrentBet,
\* Turn) is as before the call.
RejectedBetChangesNothing ==
    [][ /\ Called("Bet") =>
            LET pl == game.Players[lastOp'.p]
                amount == lastOp'.amount
            IN (amount > pl.Money \/ amount < game.CurrentBet - pl.Bet)
                   => ~Accepted
        /\ (\/ Called("Bet") \/ Called("Call") \/ Called("Raise")) /\ ~Accepted
             => game' = game
      ]_vars

\* a Bet has just been refused for being below the amount to call
RejectedBetWitness ==
    /\ Dealt
    /\ lastOp.op = "Bet"
    /\ lastOp.err = "bet must be at least the current bet"
    /\ lastOp.amount <= game.Players[lastOp.p].Money

\* C4: an accepted Bet(player, amount) moves exactly amount from the
\* player's Money to the player's Bet and to Pot, sets CurrentBet to the
\* player's new Bet exactly when that exceeds the old CurrentBet, and leaves
\* every other player as it was.
AcceptedBetEffect ==
    [][ Called("Bet") /\ Accepted =>
          LET p == lastOp'.p
              amount == lastOp'.amount
              old == game.Players[p]
              new == game'.Players[p]
          IN /\ new.Money = old.Money - amount
             /\ new.Bet = old.Bet + amount
             /\ new.Folded = old.Folded
             /\ game'.Pot = game.Pot + amount
             /\ game'.CurrentBet = IF new.Bet > game.CurrentBet
                                   THEN new.Bet
                                   ELSE game.CurrentBet
             /\ \A q \in Seats(game) \ {p} : game'.Players[q] = game.Players[q]
             /\ Len(game'.Players) = Len(game.Players)
      ]_vars

\* a player with chips already in the street has bet more, raising CurrentBet
AcceptedBetWitness ==
    /\ Dealt
    /\ lastOp.op = "Bet"
    /\ lastOp.err = Nil
    /\ lastOp.amount > 0
    /\ game.Players[lastOp.p].Bet > lastOp.amount
    /\ game.CurrentBet = game.Players[lastOp.p].Bet
    /\ game.CurrentBet > BigBlindAmount

\* C5: Call(player) has the result and the effect of
\* Bet(player, CurrentBet - player.Bet), and Raise(player, amount) those of
\* Bet(player, CurrentBet - player.Bet + amount); after an accepted Call the
\* player's Bet equals CurrentBet, and an accepted Raise with amount > 0
\* increases CurrentBet by exactly amount.
CallAndRaiseAreBets ==
    [][ /\ Called("Call") =>
            LET p == lastOp'.p
                r == Bet(game, p, game.CurrentBet - game.Players[p].Bet)
            IN /\ game' = r.g
               /\ lastOp'.err = r.err
               /\ Accepted => game'.Players[p].Bet = game'.CurrentBet
        /\ Called("Raise") =>
            LET p == lastOp'.p
                amount == lastOp'.amount
                r == Bet(game, p, game.CurrentBet - game.Players[p].Bet + amount)
            IN /\ game' = r.g
               /\ lastOp'.err = r.err
               /\ (Accepted /\ amount > 0)
                    => game'.CurrentBet = game.CurrentBet + amount
      ]_vars

\* a player has raised the big blind by a positive amount
CallAndRaiseWitness ==
    /\ Dealt
    /\ lastOp.op = "Raise"
    /\ lastOp.err = Nil
    /\ lastOp.amount > 0
    /\ game.CurrentBet = BigBlindAmount + lastOp.amount
    /\ game.Players[lastOp.p].Bet = game.CurrentBet

\* C6: Check(player) returns an error exactly when player.Bet < CurrentBet,
\* and changes nothing in the game whether it is accepted or refused.
CheckChangesNothing ==
    [][ Called("Check") =>
          /\ ~Accepted <=> game.Players[lastOp'.p].Bet < game.CurrentBet
          /\ game' = game
      ]_vars

\* a Check has just been refused while another seat's Check would be accepted
CheckWitness ==
    /\ Dealt
    /\ lastOp.op = "Check"
    /\ lastOp.err # Nil
    /\ game.Players[lastOp.p].Bet < game.CurrentBet
    /\ \E q \in Seats(game) : game.Players[q].Bet = game.CurrentBet

\* C7: Fold(player) sets the player's folded flag and leaves the player's
\* Money and Bet, Pot, CurrentBet and every other player unchanged.
FoldKeepsChips ==
    [][ Called("Fold") =>
          LET p == lastOp'.p IN
          /\ game'.Players[p].Folded
          /\ game'.Players[p].Money = game.Players[p].Money
          /\ game'.Players[p].Bet = game.Players[p].Bet
          /\ game'.Pot = game.Pot
          /\ game'.CurrentBet = game.CurrentBet
          /\ Len(game'.Players) = Len(game.Players)
          /\ \A q \in Seats(game) \ {p} : game'.Players[q] = game.Players[q]
      ]_vars

\* a player with chips in the street has just folded
FoldWitness ==
    /\ Dealt
    /\ lastOp.op = "Fold"
    /\ game.Players[lastOp.p].Folded
    /\ game.Players[lastOp.p].Bet > 0
    /\ game.Pot > 0

\* C8: with at least one player not folded, NextTurn sets Turn to the first
\* non-folded seat after the previous Turn in seating order, wrapping from
\* the last seat to seat 0 and skipping every folded seat in between.
NextTurnSkipsFolded ==
    [][ (Called("NextTurn") /\ NotFolded(game) # {}) =>
          LET n == Len(game.Players) IN
          \E k \in 1..n :
             /\ game'.Turn = (game.Turn + k) % n
             /\ ~game.Players[game'.Turn + 1].Folded
             /\ \A j \in 1..(k - 1) : game.Players[((game.Turn + j) % n) + 1].Folded
      ]_vars

\* NextTurn has just wrapped past the last seat and skipped a folded seat
NextTurnWitness ==
    /\ Dealt
    /\ lastOp.op = "NextTurn"
    /\ ~spinning
    /\ game.Type = "holdem"
    /\ game.stage = 0
    /\ Len(game.Players) = 3
    /\ game.Turn = 1
    /\ game.Players[1].Folded
    /\ ~game.Players[2].Folded

\* the step is the handling of a $fold or of a timeout that has folded a seat
FoldStep == lastOp'.op \in {"$fold", "timeout"} /\ lastOp'.p # 0

\* C9: whenever a fold, by command or by turn timeout, leaves exactly one
\* non-folded player, the round ends at once in that player's favour: the
\* handler credits that player the whole pot and gives no further turn in
\* the round (the game is over or a new round is dealt), whatever that
\* player's Bet is relative to CurrentBet.
FoldOutEndsRound ==
    [][ FoldStep =>
          LET left == NotFolded(Fold(game, lastOp'.p)) IN
          Cardinality(left) = 1 =>
             LET winner == Least(left) IN
             /\ lastOp'.paid = <<[seat   |-> winner,
                                  nick   |-> game.Players[winner].Nick,
                                  amount |-> game.Pot]>>
             /\ \/ game' = NoGame
                \/ NotFolded(game') = Seats(game')
      ]_vars

\* C10: IsRoundOver is true in every state where at most one player is not
\* folded, whatever that player's Bet is relative to CurrentBet.
RoundOverWhenOneLeft ==
    (Dealt /\ Cardinality(NotFolded(game)) <= 1) => IsRoundOver(game)

\* every non-folded seat has the same street bet
EqualStreetBets(g) ==
    \A i, j \in NotFolded(g) : g.Players[i].Bet = g.Players[j].Bet

\* C11: in hold'em and omaha, with two or more non-folded players,
\* IsRoundOver returns true exactly when all non-folded players have equal
\* street bets and the final street (stage 3) has been reached; it returns
\* false while the final street has not been reached or while two
\* non-folded players' street bets differ.
RoundOverAtFinalStreet ==
    (Dealt /\ ~IsDraw(game) /\ Cardinality(NotFolded(game)) >= 2) =>
       (IsRoundOver(game) <=>
            (EqualStreetBets(game) /\ game.stage = FinalStage))

\* C12: a hold'em round start (ResetRound, then DealCards) with every stack
\* at 1000 and blinds 5/10 leaves every player with exactly 2 hole cards,
\* the seats (button+1) mod n and (button+2) mod n having paid 5 and 10,
\* Pot = 15, CurrentBet = 10 and Turn at the seat after the big blind.
HoldemRoundStart ==
    [][ ( /\ Called("DealCards")
          /\ lastOp.op = "ResetRound"
          /\ game.Type = "holdem"
          /\ \A i \in Seats(game) : game.Players[i].Money = StartingMoney )
        =>
          LET n  == Len(game.Players)
              sb == ((game.button + 1) % n) + 1
              bb == ((game.button + 2) % n) + 1
          IN /\ \A i \in Seats(game') : Len(game'.Players[i].Hand) = 2
             /\ game'.Players[sb].Bet = SmallBlindAmount
             /\ game'.Players[sb].Money = StartingMoney - SmallBlindAmount
             /\ game'.Players[bb].Bet = BigBlindAmount
             /\ game'.Players[bb].Money = StartingMoney - BigBlindAmount
             /\ game'.Pot = SmallBlindAmount + BigBlindAmount
             /\ game'.CurrentBet = BigBlindAmount
             /\ game'.Turn = (bb % n)
      ]_vars

\* C12 witness: a three-seat hold'em round has just been dealt from stacks
\* of 1000; carol posted the small blind and alice the big blind.
HoldemRoundStartWitness ==
    /\ lastOp.op = "DealCards"
    /\ game.Type = "holdem"
    /\ Len(game.Players) = 3
    /\ game.Players[3].Money = StartingMoney - SmallBlindAmount
    /\ game.Players[1].Money = StartingMoney - BigBlindAmount
    /\ game.Players[2].Money = StartingMoney
    /\ game.Turn = 1

\* every card of the game: the deck, the community cards and the hands
CardsInPlay(g) ==
    LET RECURSIVE Hands(_)
        Hands(i) == IF i > Len(g.Players) THEN << >>
                    ELSE g.Players[i].Hand \o Hands(i + 1)
    IN g.Deck \o g.River \o Hands(1)

\* C13: card uniqueness.  In every state reached from ResetRound by
\* DealCards, UpdateRiver and DrawCards, the deck, the hands and the
\* community cards together hold each of the 52 cards exactly once.
CardUniqueness ==
    phase # "new" =>
       LET cards == CardsInPlay(game) IN
       /\ Len(cards) = Len(GenerateDeck)
       /\ \A c \in 1..Len(GenerateDeck) :
             Cardinality({k \in 1..Len(cards) : cards[k] = GenerateDeck[c]}) = 1

\* C13 witness: in the draw phase of five-card draw the first seat has
\* exchanged its first card, which is now at the bottom of the deck.
CardUniquenessWitness ==
    /\ lastOp.op = "DrawCards"
    /\ game.drawPhase
    /\ game.Deck[Len(game.Deck)] = GenerateDeck[1]
    /\ game.Players[1].Hand[1] # GenerateDeck[1]

\* the number of cards UpdateRiver deals at a stage: flop, turn, river
StreetCards(stage) ==
    CASE stage = 0 -> 3
      [] stage \in {1, 2} -> 1
      [] OTHER -> 0

\* C14: each hold'em / omaha street advance (UpdateRiver) moves cards from
\* the top of the deck to the community cards on the schedule 3, 1, 1,
\* resets every player's street bet and CurrentBet to 0, sets Turn to the
\* seat after the button, and leaves Pot and every player's Money unchanged.
StreetAdvance ==
    [][ (Called("UpdateRiver") /\ ~IsDraw(game)) =>
          /\ game.stage < FinalStage =>
               /\ game'.River = game.River \o Take(game.Deck, StreetCards(game.stage))
               /\ game'.Deck = Drop(game.Deck, StreetCards(game.stage))
               /\ game'.stage = game.stage + 1
          /\ \A i \in Seats(game') : game'.Players[i].Bet = 0
          /\ game'.CurrentBet = 0
          /\ game'.Turn = (game.button + 1) % Len(game.Players)
          /\ game'.Pot = game.Pot
          /\ Len(game'.Players) = Len(game.Players)
          /\ \A i \in Seats(game) : game'.Players[i].Money = game.Players[i].Money
      ]_vars

\* C14 witness: the third advance has dealt the river after the flop and
\* the turn: five community cards, 47 - 2n cards left in the deck.
StreetAdvanceWitness ==
    /\ lastOp.op = "UpdateRiver"
    /\ game.Type = "holdem"
    /\ game.stage = FinalStage
    /\ Len(game.River) = 5
    /\ game.Pot = SmallBlindAmount + BigBlindAmount
    /\ game.CurrentBet = 0

\* the record of a call or check the handler accepted
Matched(op) == op.op \in {"$call", "$check"} /\ op.err = Nil /\ op.p # 0

\* C15: round progression.  In a round driven through the command handler
\* where nobody folds and every player in turn matches the current bet
\* (call / check), the round advances from the dealt street to the next
\* one (and so on to showdown and settlement): once the last of the two
\* seats has matched in its turn, the street is closed and the next one is
\* dealt (or, after the last street, the pot is paid).
RoundProgression ==
    [][ ( /\ game # NoGame
          /\ Len(game.Players) = 2
          /\ NotFolded(game) = Seats(game)
          /\ Matched(lastOp)
          /\ Matched(lastOp')
          /\ lastOp'.p # lastOp.p
          /\ lastOp'.nick = currentTurn )
        =>
          \/ lastOp'.paid # << >>
          \/ /\ game' # NoGame
             /\ \/ game'.stage = game.stage + 1
                \/ game'.drawPhase /\ ~game.drawPhase
      ]_vars

\* C16: at showdown EvaluateHands returns a non-folded player whose
\* evaluated hand (hole cards plus community cards, or the hole cards alone
\* in five-card draw) is not beaten by the hand of any other non-folded
\* player; a folded player is never returned, whatever cards they hold.
\* Stated for every call of EvaluateHands made once the round is dealt.
BestHandReturned ==
    [][ Called("EvaluateHands") =>
          /\ lastOp'.err = Nil
          /\ \A run \in EvaluateHands(game) :
                run.winner = lastOp'.p =>
                   IF NotFolded(game) = {} THEN run.winner = 0
                   ELSE /\ run.winner \in NotFolded(game)
                        /\ \A j \in NotFolded(game) :
                              ~beats(run.hands[j], run.hands[run.winner])
      ]_vars

\* C16 witness: EvaluateHands has returned the second seat at the river of
\* a three-seat omaha round in which the third seat has folded a hand that
\* beats the hand of the seat returned.
BestHandReturnedWitness ==
    /\ lastOp.op = "EvaluateHands"
    /\ lastOp.p = 2
    /\ game.stage = FinalStage
    /\ NotFolded(game) = {1, 2}
    /\ \E folded \in evaluateHand(game, 3), returned \in evaluateHand(game, 2) :
          beats(folded, returned)

\* showdown: the round is over with two or more players left, the case in
\* which checkRoundEnd calls endRound
Showdown == Dealt /\ IsRoundOver(game) /\ Cardinality(NotFolded(game)) >= 2

\* the non-folded seats whose hand no non-folded seat's hand beats
Unbeaten(g) ==
    {i \in NotFolded(g) :
        \E hand \in evaluateHand(g, i) :
           \A j \in NotFolded(g) : \A other \in evaluateHand(g, j) :
              ~beats(other, hand)}

\* the chips a settlement credited to a seat
Credited(paid, seat) ==
    LET RECURSIVE Sum(_)
        Sum(k) == IF k = 0 THEN 0
                  ELSE (IF paid[k].seat = seat THEN paid[k].amount ELSE 0)
                       + Sum(k - 1)
    IN Sum(Len(paid))

\* C17: when two or more non-folded players hold hands of equal category
\* and equal tiebreakers at showdown, the pot is split evenly among all of
\* them (the remainder chips going to some of them): every tied player is
\* credited at least the pot divided by their number, rounded down, and
\* none of them the whole pot.
TiedPotIsSplit ==
    (Showdown /\ Cardinality(Unbeaten(game)) >= 2) =>
       \A s \in endRound(State) : \A i \in Unbeaten(game) :
          /\ Credited(s.paid, i) >= game.Pot \div Cardinality(Unbeaten(game))
          /\ Credited(s.paid, i) < game.Pot

\* the street bets of the non-folded seats, as a bag of amounts
StreetBets(g) ==
    [amount \in {g.Players[i].Bet : i \in NotFolded(g)} |->
        Cardinality({i \in NotFolded(g) : g.Players[i].Bet = amount})]

\* the tier ceilings: the distinct street bets of the non-folded seats, in
\* increasing order
RECURSIVE Ceilings(_)
Ceilings(S) ==
    IF S = {} THEN << >>
    ELSE <<Least(S)>> \o Ceilings(S \ {Least(S)})

\* what every seat gives to the tier between two ceilings
RECURSIVE TierSum(_, _, _, _)
TierSum(g, i, previous, ceiling) ==
    IF i > Len(g.Players) THEN 0
    ELSE (IF g.Players[i].Bet > previous
          THEN min(g.Players[i].Bet, ceiling) - previous ELSE 0)
         + TierSum(g, i + 1, previous, ceiling)

\* the tiers of the claim: one for each ceiling, leaving out the empty ones
RECURSIVE Tiers(_, _, _)
Tiers(g, ceilings, previous) ==
    IF ceilings = << >> THEN << >>
    ELSE LET pot == TierSum(g, 1, previous, Head(ceilings))
         IN (IF pot > 0 THEN <<pot>> ELSE << >>)
            \o Tiers(g, Tail(ceilings), Head(ceilings))

\* C18: for non-folded contributions 50, 100 and 100 CalculateSidePots
\* produces exactly the tiers [150, 100] (main pot 50 x 3, side pot 50 x 2)
\* whatever the seating order; in general each tier is the sum over all
\* contributors of min(contribution, tier ceiling) minus the previous
\* ceiling.
SidePotTiers ==
    [][ Called("CalculateSidePots") =>
          /\ ( /\ NotFolded(game) = Seats(game)
               /\ StreetBets(game) =
                     (MaxContribution \div 2 :> 1) @@ (MaxContribution :> 2) )
             => game'.sidePots = <<3 * (MaxContribution \div 2),
                                   2 * (MaxContribution - MaxContribution \div 2)>>
          /\ game'.sidePots =
                Tiers(game, Ceilings({game.Players[i].Bet : i \in NotFolded(game)}), 0)
      ]_vars

\* C19: all-in.  When a player's remaining stack is smaller than the amount
\* needed to call (0 < Money < CurrentBet - Bet), Call is not rejected: the
\* player's contribution is capped at the remaining stack, which leaves the
\* player with stack 0 and still not folded.
ShortCallIsAllIn ==
    [][ ( /\ Called("Call")
          /\ ~game.Players[lastOp'.p].Folded
          /\ 0 < game.Players[lastOp'.p].Money
          /\ game.Players[lastOp'.p].Money
                < game.CurrentBet - game.Players[lastOp'.p].Bet )
        =>
          LET p == lastOp'.p
              stack == game.Players[p].Money
          IN /\ Accepted
             /\ game'.Players[p].Money = 0
             /\ game'.Players[p].Bet = game.Players[p].Bet + stack
             /\ game'.Pot = game.Pot + stack
             /\ ~game'.Players[p].Folded
      ]_vars

\* the chips a seat has put into the pot of the round, every seat having
\* started the round with StartingMoney
Contribution(g, i) == StartingMoney - g.Players[i].Money

\* the tiers a seat is eligible for: from every seat, its contribution up
\* to the ceiling of seat i
Eligible(g, i) ==
    LET RECURSIVE Sum(_)
        Sum(k) == IF k = 0 THEN 0
                  ELSE min(Contribution(g, k), Contribution(g, i)) + Sum(k - 1)
    IN Sum(Len(g.Players))

\* C20: the showdown payout is side-pot aware: each tier is awarded only
\* among the non-folded players who contributed at least that tier's
\* ceiling, so a player who contributed less than the others and holds the
\* best hand receives only the tiers they are eligible for, not the entire
\* pot.
SidePotAwarePayout ==
    Showdown =>
       \A s \in endRound(State) : \A i \in Seats(game) :
          Credited(s.paid, i) <= Eligible(game, i)

----------------------------------------------------------------------------
(* The hand evaluator measured against the ranking of poker hands.         *)

\* the ranks of a set of cards
Ranks(c) == {cardValue(card) : card \in c}

\* the cards of a set that have the rank r
OfRank(c, r) == {card \in c : cardValue(card) = r}

\* five cards of one suit
OneSuit(c) == \A x \in c, y \in c : x.Suit = y.Suit

\* five ranks in a row, the ace counting low in the wheel
InARow(c) ==
    /\ Cardinality(Ranks(c)) = 5
    /\ \/ \A r \in Ranks(c), q \in Ranks(c) : r - q <= 4
       \/ Ranks(c) = {14, 2, 3, 4, 5}

\* the category of five cards by the ranking of poker hands, 9 for a royal
\* flush down to 0 for a high card
CategoryOfFive(c) ==
    CASE OneSuit(c) /\ Ranks(c) = 10..14                       -> 9
      [] OneSuit(c) /\ InARow(c)                               -> 8
      [] \E r \in Ranks(c) : Cardinality(OfRank(c, r)) = 4     -> 7
      [] /\ Cardinality(Ranks(c)) = 2
         /\ \E r \in Ranks(c) : Cardinality(OfRank(c, r)) = 3  -> 6
      [] OneSuit(c)                                            -> 5
      [] InARow(c)                                             -> 4
      [] \E r \in Ranks(c) : Cardinality(OfRank(c, r)) = 3     -> 3
      [] Cardinality(Ranks(c)) = 3                             -> 2
      [] Cardinality(Ranks(c)) = 4                             -> 1
      [] OTHER                                                 -> 0

\* the strongest category any five of the cards make
StrongestOfFive(cards) ==
    LET c == {cards[i] : i \in 1..Len(cards)}
        categories == {CategoryOfFive(five) :
                          five \in {f \in SUBSET c : Cardinality(f) = 5}}
    IN CHOOSE best \in categories : \A other \in categories : best >= other

\* the ranks a hand holds three or more cards of
Trips(cards) ==
    {r \in Ranks({cards[i] : i \in 1..Len(cards)}) :
        Cardinality(OfRank({cards[i] : i \in 1..Len(cards)}, r)) >= 3}

\* getBestHand has returned the hand lastOp.hand for the cards lastOp.cards
Evaluated == phase \in {"evaluated", "evaluated again"}

\* C21: for every set of 5 to 7 distinct cards getBestHand returns the
\* strongest category achievable by any 5-card subset of the input; an
\* input holding three of one rank and three of another is reported as a
\* full house with the higher rank as trips and the lower as the pair.
StrongestCategoryReturned ==
    Evaluated =>
       /\ lastOp.hand.category = StrongestOfFive(lastOp.cards)
       /\ Cardinality(Trips(lastOp.cards)) = 2 =>
             \E hi \in Trips(lastOp.cards), lo \in Trips(lastOp.cards) :
                hi > lo /\ lastOp.hand = Hand(6, <<hi, lo>>)

\* C22: the evaluator is deterministic: evaluating the same set of 5 to 7
\* distinct cards twice, in any card order and under any map iteration
\* order, yields the same category and the same tiebreaker sequence.
EvaluatorDeterministic ==
    phase = "evaluated again" =>
       /\ lastOp.again.category = lastOp.hand.category
       /\ lastOp.again.values = lastOp.hand.values

\* the ranks of the wheel, the ace counting low
Wheel == {14, 2, 3, 4, 5}

\* the highest cards of the runs of five ranks a hand holds, the wheel
\* apart
RunTops(cards) ==
    {top \in 6..14 :
        \A r \in (top - 4)..top : r \in Ranks({cards[i] : i \in 1..Len(cards)})}

\* the hand the wheel evaluates to
WheelHand == Hand(4, <<5>>)

----------------------------------------------------------------------------
(* The comparison of two evaluated hands.                                  *)

\* Hand.beats has been asked both ways about the hands of lastOp
Compared == phase = "compared"

\* the cards of a hand as a set
CardSet(cards) == {cards[i] : i \in 1..Len(cards)}

\* two hands of the same ranks, the suits apart
SameRanks(cards, other) ==
    \A r \in Ranks(CardSet(cards)) \cup Ranks(CardSet(other)) :
        Cardinality(OfRank(CardSet(cards), r)) =
           Cardinality(OfRank(CardSet(other), r))

\* C24: two 5-card hands with the same multiset of ranks, different suits
\* and no flush evaluate to the same category and the same tiebreaker
\* sequence, and neither hand beats the other.
SameRanksTie ==
    ( /\ Compared
      /\ SameRanks(lastOp.cards, lastOp.other)
      /\ ~OneSuit(CardSet(lastOp.cards))
      /\ ~OneSuit(CardSet(lastOp.other)) )
    => /\ lastOp.err = Nil
       /\ lastOp.hand.category = lastOp.otherHand.category
       /\ lastOp.hand.values = lastOp.otherHand.values
       /\ ~lastOp.won
       /\ ~lastOp.lost

\* C24 witness: two hands of the same ranks and different suits, neither a
\* flush, have been compared
SameRanksTieWitness ==
    /\ Compared
    /\ SameRanks(lastOp.cards, lastOp.other)
    /\ CardSet(lastOp.cards) # CardSet(lastOp.other)
    /\ ~OneSuit(CardSet(lastOp.cards))
    /\ ~OneSuit(CardSet(lastOp.other))
    /\ lastOp.hand = lastOp.otherHand
    /\ lastOp.hand.category = 1

\* the first position at which two tiebreaker sequences differ, 0 when
\* they are equal
FirstDifference(a, b) ==
    LET differ == {i \in 1..Len(a) : i > Len(b) \/ a[i] # b[i]}
                     \cup (Len(a) + 1)..Len(b)
    IN IF differ = {} THEN 0
       ELSE CHOOSE i \in differ : \A j \in differ : i <= j

\* hand a is above hand b in the ranking: a higher category, or the same
\* category and the higher value at the first difference
Above(a, b) ==
    \/ a.category > b.category
    \/ /\ a.category = b.category
       /\ FirstDifference(a.values, b.values) # 0
       /\ FirstDifference(a.values, b.values) <= Len(a.values)
       /\ FirstDifference(a.values, b.values) <= Len(b.values)
       /\ a.values[FirstDifference(a.values, b.values)]
             > b.values[FirstDifference(a.values, b.values)]

\* C25: beats is a strict order consistent with the ranking: a hand of
\* higher category always beats one of lower category, for equal categories
\* the first differing tiebreaker decides, it never holds that a beats b
\* and b beats a, and a hand never beats an equal hand.
BeatsIsStrictOrder ==
    Compared =>
       /\ lastOp.err = Nil
       /\ lastOp.won = Above(lastOp.hand, lastOp.otherHand)
       /\ lastOp.lost = Above(lastOp.otherHand, lastOp.hand)
       /\ ~(lastOp.won /\ lastOp.lost)
       /\ lastOp.hand = lastOp.otherHand => ~lastOp.won /\ ~lastOp.lost

\* C25 witness: a royal flush has been compared with a straight flush of a
\* lower top card, and has beaten it
BeatsIsStrictOrderWitness ==
    /\ Compared
    /\ \/ /\ lastOp.hand = Hand(9, <<14>>)
          /\ lastOp.otherHand = Hand(8, <<13>>)
          /\ lastOp.won /\ ~lastOp.lost
       \/ /\ lastOp.otherHand = Hand(9, <<14>>)
          /\ lastOp.hand = Hand(8, <<13>>)
          /\ lastOp.lost /\ ~lastOp.won

\* the cards EvaluateHands hands to getBestHand for a seat
CardsEvaluated(g, i) ==
    IF IsDraw(g) THEN g.Players[i].Hand ELSE g.Players[i].Hand \o g.River

\* C26: evaluating fewer than 5 cards (a hold'em showdown on 2 hole cards
\* with no community cards) is reported as an InsufficientCards error
\* value rather than producing a hand rank or aborting.
InsufficientCardsReported ==
    [][ ( /\ Called("EvaluateHands")
          /\ \E i \in Seats(game) :
                ~Skipped(game, i) /\ Len(CardsEvaluated(game, i)) < 5 )
        => lastOp'.err = "InsufficientCards"
      ]_vars

----------------------------------------------------------------------------
(* Drawing cards and beginning a round.                                    *)

\* what a call of DrawCards does index by index: for every index in range,
\* the card discarded, the card dealt for it, the top of the deck before
\* and the bottom of the deck after, and the cards then held
RECURSIVE DrawTrace(_, _, _)
DrawTrace(g, p, indices) ==
    IF indices = << >> THEN << >>
    ELSE LET at   == Head(indices) + 1
             next == DrawLoop(g, p, <<Head(indices)>>)
         IN (IF at \in 1..Len(g.Players[p].Hand)
             THEN << [discarded |-> g.Players[p].Hand[at],
                      dealt     |-> next.Players[p].Hand[at],
                      top       |-> g.Deck[1],
                      bottom    |-> next.Deck[Len(next.Deck)],
                      held      |-> Len(next.Players[p].Hand)] >>
             ELSE << >>)
            \o DrawTrace(next, p, Tail(indices))

\* C27: in five-card draw during the draw phase DrawCards(player, indices)
\* puts each discarded card at the bottom of the deck and replaces it with
\* the card from the top of the deck, keeping the hand at 5 cards; a card
\* discarded in a round is never dealt to any player again in that round.
DiscardsStayOut ==
    [][ (Called("DrawCards") /\ game.drawPhase) =>
          LET trace == DrawTrace(game, lastOp'.p, DrawIndices[lastOp'.amount])
          IN /\ \A k \in 1..Len(trace) :
                  /\ trace[k].dealt = trace[k].top
                  /\ trace[k].bottom = trace[k].discarded
                  /\ trace[k].held = 5
             /\ \A k \in 1..Len(trace), j \in 1..Len(trace) :
                  j <= k => trace[k].dealt # trace[j].discarded
             /\ \A i \in Seats(game) : Len(game'.Players[i].Hand) = 5
      ]_vars

\* C28: in five-card draw each player can change their hand through the
\* discard/replace action at most once per round: a second DrawCards by
\* the same player in the same round leaves that player's hand and the
\* deck unchanged.
OneDrawPerRound ==
    [][ ( /\ lastOp.op = "DrawCards"
          /\ game.drawPhase
          /\ Called("DrawCards")
          /\ lastOp'.p = lastOp.p )
        => /\ game'.Players[lastOp.p].Hand = game.Players[lastOp.p].Hand
           /\ game'.Deck = game.Deck
      ]_vars

\* the handler has begun a round in this step: the second player has
\* joined, or a round has been paid out and the game goes on
RoundBegun ==
    /\ game' # NoGame
    /\ \/ /\ lastOp'.op = "$join"
          /\ lastOp'.err = Nil
          /\ Len(game'.Players) = 2
       \/ lastOp'.paid # << >>

\* the stack a seat had when the round was begun, forced bets put back
StackAtStart(g, i) ==
    g.Players[i].Money + g.Players[i].Bet + (IF IsDraw(g) THEN AnteAmount ELSE 0)

\* C29: a round is started (cards dealt, forced bets collected) only when
\* at least two seated players have stack > 0; with fewer eligible players
\* the start is refused, including for the first round started when the
\* second player joins.
RoundNeedsTwoStacks ==
    [][ RoundBegun =>
          Cardinality({i \in Seats(game') : StackAtStart(game', i) > 0}) >= 2
      ]_vars

\* C30: at each new round (ResetRound) every player's hand is emptied,
\* street bet set to 0 and folded flag cleared, Pot and CurrentBet are 0
\* and the community cards are empty, while every player's Money is carried
\* over unchanged; in hold'em/omaha the button advances by exactly one seat
\* modulo the number of players.
RoundReset ==
    [][ Called("ResetRound") =>
          /\ Seats(game') = Seats(game)
          /\ \A i \in Seats(game) :
               /\ game'.Players[i].Hand = << >>
               /\ game'.Players[i].Bet = 0
               /\ ~game'.Players[i].Folded
               /\ game'.Players[i].Money = game.Players[i].Money
               /\ game'.Players[i].Nick = game.Players[i].Nick
          /\ game'.Pot = 0
          /\ game'.CurrentBet = 0
          /\ game'.River = << >>
          /\ ~IsDraw(game) =>
                game'.button = (game.button + 1) % Len(game.Players)
      ]_vars

\* C30 witness: a hold'em table of three has been reset for its second
\* round after more chips than the blinds were bet: the stacks are what
\* the first round left, no seat is folded and the button is on the third
\* seat
RoundResetWitness ==
    /\ lastOp.op = "ResetRound"
    /\ phase = "reset"
    /\ calls > MaxRoundCalls
    /\ game.Type = "holdem"
    /\ Len(game.Players) = 3
    /\ game.button = 2
    /\ game.Pot = 0
    /\ \A i \in Seats(game) : ~game.Players[i].Folded
    /\ SumMoney(game.Players) < 3 * StartingMoney - BigBlindAmount - SmallBlindAmount

----------------------------------------------------------------------------
(* The handler and its players' turns.                                     *)

\* the commands a player acts with on their turn
TurnCommands == {"$bet", "$call", "$raise", "$check", "$fold", "$draw"}

\* the nick of the seat the turn is on, "" when no round is being played
WhoseTurn ==
    IF /\ game # NoGame
       /\ game.InProgress
       /\ game.Turn >= 0
       /\ game.Turn < Len(game.Players)
    THEN game.Players[game.Turn + 1].Nick
    ELSE ""

\* C31: a betting or draw command ($bet, $call, $raise, $check, $fold,
\* $draw) sent by a nick that is not the player whose turn it currently is
\* leaves the game state (all Money, Bet and folded values, Pot, CurrentBet,
\* Turn) unchanged.
OutOfTurnIgnored ==
    [][ (lastOp'.op \in TurnCommands /\ lastOp'.nick # WhoseTurn) =>
          /\ game' = game
          /\ UNCHANGED handlerVars
      ]_vars

\* C31 witness: in a round being played, a seated player whose turn it is
\* not has sent $call and the handler has dropped the message
OutOfTurnIgnoredWitness ==
    /\ phase = "handler"
    /\ game # NoGame
    /\ game.InProgress
    /\ lastOp.op = "$call"
    /\ lastOp.nick # WhoseTurn
    /\ FindPlayer(game, lastOp.nick) # 0
    /\ lastOp.err = "not your turn"

\* the commands that put chips in or pass
ActionCommands == {"$bet", "$call", "$raise", "$check"}

\* C32: all mutations of one channel's game are serialized: the callback of
\* the turn timer (handleTimeout) never runs interleaved with the handling
\* of a player command on the same game, so no player is both folded by the
\* timer and has a bet, call, raise or check applied for the same turn, and
\* the turn does not advance twice for one action.
TimerAndCommandsSerialized ==
    [][ (/\ phase = "folding"
         /\ lastOp.op = "timeout fold"
         /\ lastOp'.op \in ActionCommands
         /\ lastOp'.nick = lastOp.nick) => lastOp'.err # Nil
      ]_vars

----------------------------------------------------------------------------
(* Straight flushes.                                                       *)

\* the sets of five of the cards
Fives(cards) ==
    {f \in SUBSET {cards[i] : i \in 1..Len(cards)} : Cardinality(f) = 5}

\* the fives that are a run of five ranks in one suit
SuitedRuns(cards) == {f \in Fives(cards) : OneSuit(f) /\ InARow(f)}

\* the top card of a run, the ace of the wheel counting low
TopOf(f) ==
    IF Ranks(f) = Wheel THEN 5
    ELSE CHOOSE r \in Ranks(f) : \A q \in Ranks(f) : r >= q

\* C33: a straight flush is reported only when five consecutive ranks all
\* belong to one suit: a hand of 5 to 7 cards that holds a flush and a
\* straight but no suit with five consecutive ranks evaluates as a flush,
\* not as a straight flush or a royal flush; and when a suit holds more
\* than one run the top card of the highest run is the tiebreak value.
StraightFlushInOneSuit ==
    Evaluated =>
       /\ lastOp.hand.category \in {8, 9} => SuitedRuns(lastOp.cards) # {}
       /\ ( /\ SuitedRuns(lastOp.cards) = {}
            /\ \E f \in Fives(lastOp.cards) : OneSuit(f)
            /\ \E f \in Fives(lastOp.cards) : InARow(f) )
          => lastOp.hand.category = 5
       /\ SuitedRuns(lastOp.cards) # {} =>
             /\ lastOp.hand.category \in {8, 9}
             /\ \E f \in SuitedRuns(lastOp.cards) :
                   /\ \A other \in SuitedRuns(lastOp.cards) :
                         TopOf(f) >= TopOf(other)
                   /\ lastOp.hand.values = <<TopOf(f)>>

\* C33 witness: a hand that holds a flush and a straight, but no five ranks
\* in a row in one suit, has been evaluated as a flush
StraightFlushInOneSuitWitness ==
    /\ Evaluated
    /\ SuitedRuns(lastOp.cards) = {}
    /\ \E f \in Fives(lastOp.cards) : OneSuit(f)
    /\ \E f \in Fives(lastOp.cards) : InARow(f)
    /\ lastOp.hand.category = 5

----------------------------------------------------------------------------
(* Streets and turns of the engine.                                        *)

\* C34: in five card draw, entering the draw phase (UpdateRiver) does not by
\* itself end the round: with two or more non-folded players IsRoundOver is
\* still false after it, until the draw has taken place and a betting
\* street after the draw has completed with equal bets.
DrawPhaseKeepsRoundOpen ==
    [][ ( /\ Called("UpdateRiver")
          /\ IsDraw(game)
          /\ ~game.drawPhase
          /\ Cardinality(NotFolded(game)) >= 2 ) => ~IsRoundOver(game')
      ]_vars

\* C35: NextTurn terminates from every state reachable by any sequence of
\* engine operations, the state in which every seated player has folded
\* included; it never loops forever and never aborts.
NextTurnTerminates ==
    [][ Called("NextTurn") => ~spinning' ]_vars

\* the operations of a round after its start
RoundOperations ==
    {"Bet", "Call", "Raise", "Check", "Fold", "NextTurn", "UpdateRiver"}

\* C36: in every state reached from a round start by Bet, Call, Raise,
\* Check, Fold, NextTurn and UpdateRiver no player's street bet exceeds
\* CurrentBet, and CurrentBet is the largest street bet of the seated
\* players, folded or not; so no Bet or Raise with a negative amount is
\* accepted and Pot never decreases during the round.
StreetBetsBelowCurrentBet ==
    [][ /\ phase' = "dealt" =>
             /\ \A i \in Seats(game') : game'.Players[i].Bet <= game'.CurrentBet
             /\ \E i \in Seats(game') : game'.Players[i].Bet = game'.CurrentBet
        /\ (phase = "dealt" /\ lastOp'.op \in RoundOperations) =>
             /\ (lastOp'.op \in {"Bet", "Raise"} /\ Accepted) =>
                   lastOp'.amount >= 0
             /\ game'.Pot >= game.Pot
      ]_vars

\* C36 witness: a raise has been accepted while another player's street
\* bet stays below the raised CurrentBet
StreetBetsBelowCurrentBetWitness ==
    /\ phase = "dealt"
    /\ lastOp.op = "Raise"
    /\ lastOp.err = Nil
    /\ lastOp.amount > 0
    /\ game.Players[lastOp.p].Bet = game.CurrentBet
    /\ \E i \in Seats(game) : game.Players[i].Bet < game.CurrentBet

----------------------------------------------------------------------------
(* Timers and chips of the handler.                                        *)

\* the timers of the channel that will still fire
PendingTimers == (IF turnTimer = "pending" THEN 1 ELSE 0) + stray

\* C37: at any time at most one turn timer is pending per channel, so a
\* player is folded by timeout only when the 15 seconds since the
\* announcement of that player's own turn have passed without an accepted
\* action; a timer armed during the turn of the player before never folds
\* the next player.
AtMostOneTurnTimer == PendingTimers <= 1

\* the step ends the round being played: the game is discarded, or a winner
\* is paid and the next round dealt
RoundEnds ==
    /\ game # NoGame
    /\ game.InProgress
    /\ game' = NoGame \/ lastOp'.paid # << >>

\* C38: whenever a round or game ends (by fold-out, showdown, timeout or
\* all players folded) the whole pot has been credited to exactly one
\* player before the pot is reset or the game discarded, so that the
\* players' Money after the round adds up to what it was at the start of
\* the round: no chips are lost or created.
PotGoesToOnePlayer ==
    [][ (RoundEnds /\ FoldStep) =>
          /\ Len(lastOp'.paid) = 1
          /\ lastOp'.paid[1].amount = game.Pot
          /\ game' # NoGame =>
                SumMoney(game'.Players) + game'.Pot =
                   SumMoney(game.Players) + game.Pot
      ]_vars

\* the seat DealCards gives the turn to: the seat after the big blind, or
\* the first seat in five card draw
DealtTurn(g) ==
    IF IsDraw(g) THEN 0 ELSE (g.button + 3) % Len(g.Players)

\* C39: when the handler starts a round, the player it announces and takes
\* commands from first is the seat that DealCards set as Turn (in hold'em
\* and omaha the seat right after the big blind, in five card draw seat 0);
\* the handler does not advance the turn before the first action.
FirstTurnIsDealtTurn ==
    [][ RoundBegun =>
          /\ game'.Turn = DealtTurn(game')
          /\ currentTurn' = game'.Players[DealtTurn(game') + 1].Nick
      ]_vars

\* the community cards on the table at each stage
CardsAtStage == <<0, 3, 4, 5>>

\* C40: under any sequence of UpdateRiver calls within a hold'em or omaha
\* round, stage stays within 0..3 (preflop, flop, turn, river), the number
\* of community cards is 0, 3, 4, 5 at stage 0, 1, 2, 3 and never exceeds
\* 5; and once IsRoundOver is true on the final street with equal bets, a
\* further UpdateRiver does not make it false again.
StagesWithinRiver ==
    [][ (Called("UpdateRiver") /\ ~IsDraw(game)) =>
          /\ game'.stage \in 0..FinalStage
          /\ Len(game'.River) = CardsAtStage[game'.stage + 1]
          /\ (game.stage = FinalStage /\ IsRoundOver(game)) => IsRoundOver(game')
      ]_vars

====
